---- MODULE Spec2Model ----
(***************************************************************************)
(* Protocol engine of the Brother P-touch ESP32 driver (PtouchPrinter).    *)
(*                                                                         *)
(* The repository carries the engine in three builds.  `variant' selects   *)
(* the build whose code is executed:                                       *)
(*   "printer"  components/ptouch-esp32/src/ptouch_printer.cpp (complete)  *)
(*   "printing" printBitmap/finalizePrint of components/.../               *)
(*              ptouch_printing.cpp over the helpers of ptouch_printer.cpp *)
(*   "lib"      lib/ptouch-esp32/src/ptouch_printer.cpp with the           *)
(*              printBitmap/finalizePrint of lib/.../ptouch_printing.cpp   *)
(*                                                                         *)
(* A byte is a number in 0..255, a frame is a sequence of bytes.  Every    *)
(* blocking transport call (usbSend / usbReceive) is one step of a print   *)
(* job; the transport itself is the environment and returns -1, 0 or the   *)
(* full length.                                                            *)
(*                                                                         *)
(* ptouch_debug.c (protocol classifier, packet statistics) is called by    *)
(* none of the engine's methods; it has its own specifications,            *)
(* SpecClassifier and SpecLogger, in which the engine stays as constructed.*)
(***************************************************************************)
EXTENDS Integers, Sequences, FiniteSets, TLC

VARIABLES
    variant,             \* which build of the engine runs
    scenario,            \* which inputs the environment offers (fixed for a run)
    usb_host_installed,  \* PtouchPrinter::usb_host_installed
    client_hdl,          \* PtouchPrinter::client_hdl (TRUE = registered)
    device_hdl,          \* PtouchPrinter::device_hdl (NULL or pid of the opened device)
    device_info,         \* PtouchPrinter::device_info (NULL or index into supported_devices)
    status,              \* *PtouchPrinter::status, the 32 raw bytes of ptouch_stat
    tape_width_px,       \* PtouchPrinter::tape_width_px
    is_connected,        \* PtouchPrinter::is_connected
    is_initialized,      \* PtouchPrinter::is_initialized
    pc,                  \* "idle", the step of the running printBitmap, or "returned"
    job,                 \* arguments and loop counter of the printBitmap call, and
                         \* whether the transport answered one of its frames with an error
    initlog,             \* frames sent by the connect() that made the current connection
    sent,                \* frames handed to the transport by the latest call
    lastCall,            \* the call that returned last, with its result (cleared on resume)
    lastDetect,          \* "rejected" while the call before the latest one was a
                         \* detectPrinter() that turned a device down
    g_ptouch_debug_logger, \* ptouch_debug.c: NoLogger or the logger (enabled, level, stats)
    esp_timer,           \* esp_timer_get_time(): the latest value the clock returned
    printerConnected,    \* main.cpp: the application's flag of the same name
    status_task,         \* main.cpp printer_status_task: where the task is, its polls so
                         \* far, and the index in `sent' of the request it transmitted last
    usb,                 \* test/mocks/mock_usb_host.h: the MockUSBHost object
    test                 \* the test driving the mock: the handle it holds, its latest
                         \* call with the result, the OUT frames that were answered ESP_OK

vars == <<variant, scenario, usb_host_installed, client_hdl, device_hdl, device_info,
          status, tape_width_px, is_connected, is_initialized, pc, job,
          initlog, sent, lastCall, lastDetect, g_ptouch_debug_logger, esp_timer,
          printerConnected, status_task, usb, test>>

\* the state of ptouch_debug.c, which no PtouchPrinter method touches
debug_vars == <<g_ptouch_debug_logger, esp_timer>>

\* the state of main.cpp, which no PtouchPrinter method touches
task_vars == <<printerConnected, status_task>>

\* the mock USB host of the unit tests and the test that drives it
mock_vars == <<usb, test>>

NULL == 0

----------------------------------------------------------------------------
(* Bounds of the model                                                     *)

\* longest USB device address list handed to detectPrinter
MaxDevs == 2

\* most packets the logger records between two resets
MaxPackets == 3

\* latest value of the microsecond clock
MaxTime == 2

\* polls printer_status_task makes in a run
MaxPolls == 2

----------------------------------------------------------------------------
(* Program constants                                                       *)

PTOUCH_VID == 1273
PTOUCH_MAX_PACKET_SIZE == 128

FLAG_NONE == 0
FLAG_UNSUP_RASTER == 1
FLAG_RASTER_PACKBITS == 2
FLAG_PLITE == 4
FLAG_P700_INIT == 8
FLAG_USE_INFO_CMD == 16
FLAG_HAS_PRECUT == 32
FLAG_D460BT_MAGIC == 64

\* flags & bit
HasFlag(flags, bit) == (flags \div bit) % 2 = 1

Dev(pid, name, max_px, dpi, flags) ==
    [vid |-> PTOUCH_VID, pid |-> pid, name |-> name, max_px |-> max_px,
     dpi |-> dpi, flags |-> flags]

\* the device catalog, without its terminator entry
supported_devices == <<
    Dev(8193, "PT-9200DX", 384, 360, FLAG_RASTER_PACKBITS + FLAG_HAS_PRECUT),
    Dev(8196, "PT-2300", 112, 180, FLAG_RASTER_PACKBITS + FLAG_HAS_PRECUT),
    Dev(8199, "PT-2420PC", 128, 180, FLAG_RASTER_PACKBITS),
    Dev(8209, "PT-2450PC", 128, 180, FLAG_RASTER_PACKBITS),
    Dev(8217, "PT-1950", 112, 180, FLAG_RASTER_PACKBITS),
    Dev(8223, "PT-2700", 128, 180, FLAG_HAS_PRECUT),
    Dev(8236, "PT-1230PC", 128, 180, FLAG_NONE),
    Dev(8237, "PT-2430PC", 128, 180, FLAG_NONE),
    Dev(8240, "PT-1230PC (PLite Mode)", 128, 180, FLAG_PLITE),
    Dev(8241, "PT-2430PC (PLite Mode)", 128, 180, FLAG_PLITE),
    Dev(8257, "PT-2730", 128, 180, FLAG_NONE),
    Dev(8286, "PT-H500", 128, 180, FLAG_RASTER_PACKBITS),
    Dev(8287, "PT-E500", 128, 180, FLAG_RASTER_PACKBITS),
    Dev(8289, "PT-P700", 128, 180, FLAG_RASTER_PACKBITS + FLAG_P700_INIT + FLAG_HAS_PRECUT),
    Dev(8290, "PT-P750W", 128, 180, FLAG_RASTER_PACKBITS + FLAG_P700_INIT),
    Dev(8292, "PT-P700 (PLite Mode)", 128, 180, FLAG_PLITE),
    Dev(8293, "PT-P750W (PLite Mode)", 128, 180, FLAG_PLITE),
    Dev(8415, "PT-D410", 128, 180, FLAG_USE_INFO_CMD + FLAG_HAS_PRECUT + FLAG_D460BT_MAGIC),
    Dev(8307, "PT-D450", 128, 180, FLAG_USE_INFO_CMD),
    Dev(8416, "PT-D460BT", 128, 180,
        FLAG_P700_INIT + FLAG_USE_INFO_CMD + FLAG_HAS_PRECUT + FLAG_D460BT_MAGIC),
    Dev(8308, "PT-D600", 128, 180, FLAG_RASTER_PACKBITS),
    Dev(8417, "PT-D610BT", 128, 180,
        FLAG_P700_INIT + FLAG_USE_INFO_CMD + FLAG_HAS_PRECUT + FLAG_D460BT_MAGIC),
    Dev(8367, "PT-P710BT", 128, 180, FLAG_RASTER_PACKBITS + FLAG_HAS_PRECUT),
    Dev(8705, "PT-E310BT", 128, 180,
        FLAG_P700_INIT + FLAG_USE_INFO_CMD + FLAG_D460BT_MAGIC) >>

\* the tape table, without its terminator entry
tape_info == <<
    [mm |-> 4, px |-> 24], [mm |-> 6, px |-> 32], [mm |-> 9, px |-> 52],
    [mm |-> 12, px |-> 76], [mm |-> 18, px |-> 120], [mm |-> 24, px |-> 128],
    [mm |-> 36, px |-> 192] >>

Variants == {"printer", "printing", "lib"}

\* what a read through device_info == nullptr yields when it does not trap
NullRead == [vid |-> 0, pid |-> 0, name |-> "", max_px |-> 0, dpi |-> 0, flags |-> 0]

\* the selected profile; only read where the code dereferences device_info
Info == IF device_info = NULL THEN NullRead ELSE supported_devices[device_info]
Flags == Info.flags


----------------------------------------------------------------------------
(* Command encoders: the byte arrays the helpers hand to usbSend           *)

Zeros(n) == [i \in 1..n |-> 0]

\* initPrinter: the frames it sends, in order
initPrinter_frames(v, flags) ==
    (IF HasFlag(flags, FLAG_P700_INIT) THEN << <<27, 64>> >> ELSE << >>)
    \o (IF v = "lib"
        THEN << Zeros(8), <<27, 64>> >>
        ELSE << Zeros(100) \o <<27, 64>> >>)

\* getStatus: status_cmd
status_cmd == <<27, 105, 83>>

\* enablePackBits: cmd
enablePackBits_cmd(v) ==
    IF v = "lib" THEN <<27, 105, 75, 8>> ELSE <<77, 2>>

\* sendInfoCommand: the bytes of cmd that are sent
sendInfoCommand_cmd(v, flags, media_width, size_x) ==
    LET s0 == size_x % 256
        s1 == (size_x \div 256) % 256
        s2 == (size_x \div 65536) % 256
        s3 == (size_x \div 16777216) % 256
    IN  IF v = "lib"
        THEN <<27, 105, 122, s0, s1, s2, s3, 0, 0, 0, 0, 0>>
        ELSE LET cmd == <<27, 105, 122, 0, 0, media_width, 0, s0, s1, s2, s3,
                          IF HasFlag(flags, FLAG_D460BT_MAGIC) THEN 2 ELSE 0, 0>>
             IN  SubSeq(cmd, 1, Len(cmd) - 1)

\* sendPreCutCommand: cmd
sendPreCutCommand_cmd(precut) ==
    <<27, 105, 77, IF precut # 0 THEN 64 ELSE 0>>

\* sendMagicCommands: first frame (chain_cmd / magic1)
chain_cmd(v) ==
    IF v = "lib" THEN <<27, 105, 97, 1>> ELSE <<27, 105, 75, 0>>

\* sendMagicCommands: second frame (magic_cmd / magic2)
magic_cmd(v) ==
    IF v = "lib" THEN <<27, 105, 33, 0>> ELSE <<27, 105, 100, 14, 0, 77, 0>>

\* rasterStart: cmd
rasterStart_cmd(v, flags) ==
    IF v # "lib" /\ HasFlag(flags, FLAG_P700_INIT)
    THEN <<27, 105, 97, 1>>
    ELSE <<27, 105, 82, 1>>

\* sendRasterLine: the length check that rejects a line
RasterLineTooLong(v, max_px, len) ==
    IF v = "lib" THEN len > 90 ELSE len > max_px \div 8

\* sendRasterLine: the bytes of cmd that are sent for an accepted line
sendRasterLine_cmd(v, flags, data) ==
    LET len == Len(data)
    IN  IF v = "lib"
        THEN <<71, len % 256>> \o data
        ELSE IF HasFlag(flags, FLAG_RASTER_PACKBITS)
             THEN <<71, (len + 1) % 256, 0, (len + 255) % 256>> \o data
             ELSE <<71, len % 256, 0>> \o data

\* finalizePrint: the first (in "printer": only) frame
finalizePrint_cmd(v, flags, chain) ==
    IF v = "printer"
    THEN IF chain /\ ~HasFlag(flags, FLAG_D460BT_MAGIC) THEN <<12>> ELSE <<26>>
    ELSE <<26>>

\* finalizePrint of ptouch_printing.cpp: ff_cmd
ff_cmd == <<27, 105, 65, 1>>

----------------------------------------------------------------------------
(* Status frames and the tape table lookup                                 *)

\* ptouch_stat fields read from the 32 raw bytes (little endian)
stat_error(st) == st[9] + 256 * st[10]
stat_media_width(st) == st[11]

\* struct ptouch_stat without __attribute__((packed)): hw_setting moves to the
\* next multiple of four
ptouch_stat_unpacked(st) ==
    [model |-> st[5], country |-> st[6], error |-> stat_error(st),
     media_width |-> stat_media_width(st), media_type |-> st[12],
     phase_type |-> st[20], phase_number |-> st[21] + 256 * st[22],
     tape_color |-> st[25], text_color |-> st[26],
     hw_setting |-> st[29] + 256 * st[30] + 65536 * st[31] + 16777216 * st[32]]

\* struct ptouch_stat (packed, little endian) laid over the 32 raw bytes
ptouch_stat(st) ==
    [model |-> st[5], country |-> st[6], error |-> stat_error(st),
     media_width |-> stat_media_width(st), media_type |-> st[12],
     phase_type |-> st[20], phase_number |-> st[21] + 256 * st[22],
     tape_color |-> st[25], text_color |-> st[26],
     hw_setting |-> st[27] + 256 * st[28] + 65536 * st[29] + 16777216 * st[30]]

\* a well-formed 32-byte status response
StatusFrame(err_lo, err_hi, mw) ==
    [i \in 1..32 |->
        CASE i = 1 -> 128 [] i = 2 -> 32 [] i = 3 -> 66 [] i = 4 -> 48
          [] i = 5 -> 103 [] i = 6 -> 49
          [] i = 9 -> err_lo [] i = 10 -> err_hi
          [] i = 11 -> mw [] i = 12 -> 1
          [] i = 20 -> 6 [] i = 21 -> 7 [] i = 22 -> 1
          [] i = 25 -> 4 [] i = 26 -> 8
          [] i = 27 -> 17 [] i = 28 -> 34 [] i = 29 -> 51 [] i = 30 -> 68
          [] OTHER -> 0]

\* what the printer may answer to a status request
RxFrames ==
    { StatusFrame(0, 0, 12), StatusFrame(0, 0, 5), StatusFrame(1, 0, 12),
      StatusFrame(0, 1, 24) }

\* a status response whose bytes all differ, but for the error and width fields
ProbeFrame(err_lo, err_hi, mw) ==
    [i \in 1..32 |->
        CASE i = 9 -> err_lo [] i = 10 -> err_hi [] i = 11 -> mw
          [] OTHER -> 20 + i]

\* the status responses of the "status" scenario: every documented error
\* code, combinations of bits, undocumented bits, either byte of the field
ProbeFrames ==
    { ProbeFrame(lo, hi, 12) :
        lo \in {0, 1, 2, 4, 5, 8, 16, 32, 64, 128, 129, 255}, hi \in {0, 1} }

\* outcomes of usbReceive(response, 32): -1, or the bytes received; the
\* PT-D460BT scenario has a 12 mm tape loaded and a printer that answers; the
\* monitored printer has its 9, 12 and 18 mm tapes swapped
RecvOutcomes ==
    IF scenario = "general"
    THEN { [received |-> -1, rx |-> << >>], [received |-> 0, rx |-> << >>],
           [received |-> 31, rx |-> SubSeq(StatusFrame(0, 0, 18), 1, 31)] }
         \cup { [received |-> 32, rx |-> f] : f \in RxFrames }
    ELSE IF scenario = "status"
    THEN { [received |-> -1, rx |-> << >>] }
         \cup { [received |-> 32, rx |-> f] : f \in ProbeFrames }
    ELSE IF scenario = "termination"
    THEN { [received |-> -1, rx |-> << >>], [received |-> 32, rx |-> StatusFrame(0, 0, 12)] }
    ELSE IF scenario \in {"monitor", "monitor_ok"}
    THEN { [received |-> 32, rx |-> StatusFrame(0, 0, mm)] : mm \in {9, 12, 18} }
         \cup (IF scenario = "monitor" THEN { [received |-> -1, rx |-> << >>] } ELSE {})
    ELSE { [received |-> 32, rx |-> StatusFrame(0, 0, 12)] }

\* getStatus: the loop over tape_info; `old' is kept when no entry matches
RECURSIVE TapeLookup(_, _, _)
TapeLookup(i, mw, old) ==
    IF i > Len(tape_info) THEN old
    ELSE IF tape_info[i].mm = mw THEN tape_info[i].px
    ELSE TapeLookup(i + 1, mw, old)

hasError == stat_error(status) # 0


----------------------------------------------------------------------------
(* Bitmaps handed to printBitmap                                           *)

Bit(c, v) == IF c THEN v ELSE 0

\* the test pattern: which pixels of an image are black
Pix(x, y) == (x + 2 * y) % 3 = 0

\* row-major, MSB-first packed bitmap of a w x h image, (w+7)/8 bytes per row
MakeBitmap(w, h) ==
    LET bpl == (w + 7) \div 8
    IN  [i \in 1..(bpl * h) |->
            LET y == (i - 1) \div bpl
                k == (i - 1) % bpl
                P(j) == Bit(8 * k + j < w /\ Pix(8 * k + j, y), 2 ^ (7 - j))
            IN  P(0) + P(1) + P(2) + P(3) + P(4) + P(5) + P(6) + P(7)]

Image(w, h) == [width |-> w, height |-> h, null |-> FALSE, bitmap |-> MakeBitmap(w, h)]

\* the print requests of the model; the first one is the 128 x 60 image of the
\* PT-D460BT scenario, the sixth one passes a null bitmap pointer, the last one
\* is taller than the 112 pins of the narrow print heads
Images == <<
    Image(128, 60), Image(2, 80), Image(2, 3), Image(9, 2), Image(0, 1),
    [width |-> 8, height |-> 8, null |-> TRUE, bitmap |-> << >>],
    Image(1, 120) >>

\* the requests a caller makes in the running scenario
ImageChoices ==
    IF scenario = "general" THEN 2..Len(Images)
    ELSE IF scenario = "tasks" THEN {3}
    ELSE IF scenario = "termination" THEN 3..6
    ELSE {1}

\* printBitmap of ptouch_printing.cpp: bitmap[byte_pos] & (1 << bit_pos)
BlackAt(img, x, y) ==
    LET byte_pos == (y * ((img.width + 7) \div 8)) + (x \div 8)
        bit_pos == 7 - (x % 8)
    IN  (img.bitmap[byte_pos + 1] \div (2 ^ bit_pos)) % 2 = 1

\* printBitmap of ptouch_printing.cpp: the pixels the loop over y passes to
\* setRasterPixel for column x
ColumnPixels(img, x, offset) ==
    { offset + (img.height - 1 - y) : y \in { yy \in 0..(img.height - 1) : BlackAt(img, x, yy) } }

\* setRasterPixel(rasterline, size, pixel) applied to a zeroed line for every
\* pixel of a set: a pixel outside 0 .. size*8-1 is ignored, any other sets
\* bit pixel % 8 of byte (size - 1) - pixel / 8 (sequence index size - pixel / 8)
setRasterPixel(size, pixels) ==
    [idx \in 1..size |->
        LET B(bit) == Bit(8 * (size - idx) + bit \in pixels, 2 ^ bit)
        IN  B(0) + B(1) + B(2) + B(3) + B(4) + B(5) + B(6) + B(7)]

----------------------------------------------------------------------------
(* The transport                                                           *)

\* a usbSend that submits the transfer whatever is_connected says
UsbSendOutcomes_unguarded(len) ==
    IF len > PTOUCH_MAX_PACKET_SIZE
    THEN { [handed |-> FALSE, res |-> -1] }
    ELSE { [handed |-> TRUE, res |-> r] : r \in {-1, 0, len} }

\* usbSend(data, len): refused by its guards, or handed to the transport, which
\* fails (-1), completes with nothing transferred (0) or transfers all bytes
UsbSendOutcomes(len) ==
    IF ~is_connected \/ device_hdl = NULL \/ len > PTOUCH_MAX_PACKET_SIZE
    THEN { [handed |-> FALSE, res |-> -1] }
    ELSE { [handed |-> TRUE, res |-> r] : r \in {-1, 0, len} }

\* usbReceive(data, len): refused by its guard, or what the transport delivers
UsbReceiveOutcomes ==
    IF ~is_connected \/ device_hdl = NULL
    THEN { [received |-> -1, rx |-> << >>] }
    ELSE RecvOutcomes

Log(log, frame, o) ==
    IF o.handed THEN Append(log, frame) ELSE log

\* the transport took the frame and answered with an error
TransportError(o) == o.handed /\ o.res < 0

\* a helper that drops the result of usbSend instead of testing (... > 0)
Failed_unchecked(kind, res) ==
    CASE kind = "neg" -> res < 0
      [] kind = "pos" -> FALSE
      [] kind = "nz"  -> res # 0

\* how a call site turns the result of usbSend into failure
Failed(kind, res) ==
    CASE kind = "neg" -> res < 0          \* if (usbSend(...) < 0) return -1
      [] kind = "pos" -> ~(res > 0)       \* (usbSend(...) > 0) ? 0 : -1
      [] kind = "nz"  -> res # 0          \* if (usbSend(...) != 0) return false

\* polling attempts of one transfer (int attempts = 1000 in usbSend and
\* usbReceive); job.attempts is what is left of them for the transfer of the
\* current step, or of the last step when the call has returned
PollAttempts == 2

NoJob == [img |-> 0, chain |-> FALSE, n |-> 0, err |-> FALSE, attempts |-> 0]
NoCall == [op |-> "none", ret |-> FALSE]

\* g_ptouch_debug_logger = NULL
\* class MockUSBHost: the member initialisers. mock_devices maps an address to
\* its MockDeviceHandle; the logs hold USBTransferRecords
MockUSBHost ==
    [host_driver_installed |-> FALSE, client_registered |-> FALSE,
     mock_devices |-> << >>, next_device_address |-> 1,
     sent_transfers |-> << >>, received_transfers |-> << >>,
     bulk_in_responses |-> << >>, next_transfer_errors |-> << >>,
     fail_next_operation |-> FALSE, next_operation_error |-> -1,
     total_transfers |-> 0, failed_transfers |-> 0]

\* a call of the test with its result
TestCall(op, ret, actual_length, endpoint, data) ==
    [op |-> op, ret |-> ret, actual_length |-> actual_length,
     endpoint |-> endpoint, data |-> data]

\* a test that has made no call and holds no handle
NoTest == [handle |-> NULL, last |-> TestCall("none", 0, 0, 0, << >>), acked |-> << >>]

\* printer_status_task in vTaskDelay, before its first poll
TaskDelayed == [pc |-> "delay", polls |-> 0, at |-> 0]

NoLogger == [allocated |-> FALSE]

\* PtouchPrinter::PtouchPrinter()
Constructed ==
    /\ variant \in Variants
    /\ usb_host_installed = FALSE
    /\ client_hdl = FALSE
    /\ device_hdl = NULL
    /\ device_info = NULL
    /\ status = Zeros(32)
    /\ tape_width_px = 0
    /\ is_connected = FALSE
    /\ is_initialized = FALSE
    /\ pc = "idle"
    /\ job = NoJob
    /\ initlog = << >>
    /\ sent = << >>
    /\ lastCall = NoCall
    /\ lastDetect = "other"
    /\ g_ptouch_debug_logger = NoLogger
    /\ esp_timer = 0
    /\ printerConnected = FALSE
    /\ status_task = TaskDelayed
    /\ usb = MockUSBHost
    /\ test = NoTest

\* any device on the bus, any print request
Init == Constructed /\ scenario = "general"

\* one PT-D460BT on the bus with 12 mm tape, printing the 128 x 60 image
InitD460BT == Constructed /\ scenario = "PT-D460BT"

\* a call is made while no other call runs
CallEntry == pc = "idle"

\* the call has returned; its frames and result stay visible until the caller resumes
Returned(rec) == pc' = "returned" /\ lastCall' = rec

\* the caller takes the result of the call and goes on
Resume ==
    /\ pc = "returned"
    /\ pc' = "idle"
    /\ sent' = << >>
    /\ job' = NoJob
    /\ lastCall' = NoCall
    /\ lastDetect' = (IF lastCall.op = "detectPrinter" THEN lastDetect ELSE "other")
    /\ UNCHANGED <<debug_vars, mock_vars, task_vars, variant, scenario, usb_host_installed, client_hdl, device_hdl, device_info,
                   status, tape_width_px, is_connected, is_initialized, initlog>>

----------------------------------------------------------------------------
(* Device management: begin, detectPrinter, connect, disconnect            *)

\* bool PtouchPrinter::begin()
begin ==
    /\ CallEntry
    /\ \E installOk, registerOk \in BOOLEAN :
          IF ~installOk \/ usb_host_installed
          THEN /\ Returned([op |-> "begin", ret |-> FALSE])
               /\ UNCHANGED <<usb_host_installed, client_hdl>>
          ELSE IF ~registerOk
          THEN /\ usb_host_installed' = FALSE
               /\ Returned([op |-> "begin", ret |-> FALSE])
               /\ UNCHANGED client_hdl
          ELSE /\ usb_host_installed' = TRUE
               /\ client_hdl' = TRUE
               /\ Returned([op |-> "begin", ret |-> TRUE])
    /\ lastDetect' = "other"
    /\ UNCHANGED <<debug_vars, mock_vars, task_vars, variant, scenario, device_hdl, device_info, status, tape_width_px,
                   is_connected, is_initialized, job, initlog, sent>>

\* devices that can sit on the bus: a (vid, pid) pair each
UsbDev(vid, pid) == [vid |-> vid, pid |-> pid]

\* devices that decide a scan: catalog entries of different width and flags
DecisiveDevs ==
    { UsbDev(PTOUCH_VID, p) : p \in {8193, 8196, 8236, 8240, 8289, 8307, 8416} }

\* devices a scan skips: a Brother device missing from the catalog, another vendor's
SkippedDevs == { UsbDev(PTOUCH_VID, 65535), UsbDev(4660, 8416) }

RECURSIVE SeqsUpTo(_, _)
SeqsUpTo(S, n) ==
    IF n = 0 THEN { << >> }
    ELSE LET shorter == SeqsUpTo(S, n - 1)
         IN  shorter \cup { Append(q, d) : q \in shorter, d \in S }

\* the device lists of the model (devices that could be opened and described);
\* devices behind the first decisive one are never looked at by the scan
DeviceLists ==
    IF scenario = "general"
    THEN SeqsUpTo(SkippedDevs, MaxDevs)
         \cup { Append(q, d) : q \in SeqsUpTo(SkippedDevs, MaxDevs - 1),
                               d \in DecisiveDevs }
    ELSE IF scenario = "catalog"
    THEN { << UsbDev(PTOUCH_VID, supported_devices[j].pid) >> :
              j \in 1..Len(supported_devices) }
         \cup { << d, UsbDev(PTOUCH_VID, supported_devices[j].pid) >> :
                  d \in SkippedDevs, j \in 1..Len(supported_devices) }
    ELSE IF scenario = "termination"
    THEN { << d >> : d \in DecisiveDevs }
    ELSE { << UsbDev(PTOUCH_VID, 8416) >> }

\* detectPrinter: the inner loop over supported_devices, first entry with this pid
RECURSIVE FindPid(_, _)
FindPid(j, pid) ==
    IF j > Len(supported_devices) THEN NULL
    ELSE IF supported_devices[j].pid = pid THEN j
    ELSE FindPid(j + 1, pid)

\* detectPrinter accepting a catalog entry whatever its flags
RECURSIVE ScanDevices_any_flags(_, _, _)
ScanDevices_any_flags(devs, i, sawUnlisted) ==
    IF i > Len(devs)
    THEN [ret |-> FALSE, why |-> IF sawUnlisted THEN "unlisted" ELSE "nodevice",
          hdl |-> NULL, info |-> NULL, found |-> NULL]
    ELSE IF devs[i].vid = PTOUCH_VID
    THEN LET j == FindPid(1, devs[i].pid)
         IN  IF j = NULL THEN ScanDevices_any_flags(devs, i + 1, TRUE)
             ELSE [ret |-> TRUE, why |-> "ok", hdl |-> devs[i].pid, info |-> j, found |-> j]
    ELSE ScanDevices_any_flags(devs, i + 1, sawUnlisted)

\* detectPrinter: the outer loop over the opened devices; `found' is the catalog
\* entry the scan ended at
RECURSIVE ScanDevices(_, _, _)
ScanDevices(devs, i, sawUnlisted) ==
    IF i > Len(devs)
    THEN [ret |-> FALSE, why |-> IF sawUnlisted THEN "unlisted" ELSE "nodevice",
          hdl |-> NULL, info |-> NULL, found |-> NULL]
    ELSE IF devs[i].vid = PTOUCH_VID
    THEN LET j == FindPid(1, devs[i].pid)
         IN  IF j = NULL THEN ScanDevices(devs, i + 1, TRUE)
             ELSE IF HasFlag(supported_devices[j].flags, FLAG_PLITE)
             THEN [ret |-> FALSE, why |-> "plite", hdl |-> NULL, info |-> NULL, found |-> j]
             ELSE IF HasFlag(supported_devices[j].flags, FLAG_UNSUP_RASTER)
             THEN [ret |-> FALSE, why |-> "unsup", hdl |-> NULL, info |-> NULL, found |-> j]
             ELSE [ret |-> TRUE, why |-> "ok", hdl |-> devs[i].pid, info |-> j, found |-> j]
    ELSE ScanDevices(devs, i + 1, sawUnlisted)

\* bool PtouchPrinter::detectPrinter()
detectPrinter ==
    /\ CallEntry
    /\ \E devs \in DeviceLists, listOk \in BOOLEAN :
          LET r == IF ~client_hdl
                   THEN [ret |-> FALSE, why |-> "noclient", hdl |-> NULL, info |-> NULL,
                         found |-> NULL]
                   ELSE IF ~listOk
                   THEN [ret |-> FALSE, why |-> "listfail", hdl |-> NULL, info |-> NULL,
                         found |-> NULL]
                   ELSE ScanDevices(devs, 1, FALSE)
          IN  /\ lastDetect' = (IF r.why \in {"plite", "unsup", "unlisted"}
                                THEN "rejected" ELSE "other")
              /\ Returned([op |-> "detectPrinter", ret |-> r.ret, why |-> r.why,
                            found |-> r.found])
              /\ IF r.ret
                 THEN device_hdl' = r.hdl /\ device_info' = r.info
                 ELSE UNCHANGED <<device_hdl, device_info>>
    /\ UNCHANGED <<debug_vars, mock_vars, task_vars, variant, scenario, usb_host_installed, client_hdl, status, tape_width_px,
                   is_connected, is_initialized, job, initlog, sent>>

\* how the transport answers one transfer
TransferResults == {"error", "none", "all"}
Res(t, len) == CASE t = "error" -> -1 [] t = "none" -> 0 [] t = "all" -> len

\* initPrinter: send the frames in order, stop at the first usbSend(...) < 0
RECURSIVE RunInit(_, _, _, _)
RunInit(frames, ts, i, log) ==
    IF i > Len(frames) THEN [ok |-> TRUE, log |-> log]
    ELSE LET r == Res(ts[i], Len(frames[i]))
             log2 == Append(log, frames[i])
         IN  IF r < 0 THEN [ok |-> FALSE, log |-> log2]
             ELSE RunInit(frames, ts, i + 1, log2)

\* void PtouchPrinter::disconnect(): the fields it leaves behind, `connected'
\* being is_connected at the time of the call
\* (the lib build does not reset status and tape_width_px)
DisconnectEffect(connected) ==
    /\ is_connected' = FALSE
    /\ is_initialized' = (IF connected THEN FALSE ELSE is_initialized)
    /\ device_hdl' = NULL
    /\ client_hdl' = FALSE
    /\ usb_host_installed' = FALSE
    /\ device_info' = NULL
    /\ initlog' = << >>
    /\ IF variant = "lib"
       THEN UNCHANGED <<status, tape_width_px>>
       ELSE status' = Zeros(32) /\ tape_width_px' = 0

\* bool PtouchPrinter::connect()
connect ==
    /\ CallEntry
    /\ UNCHANGED <<debug_vars, mock_vars, task_vars, variant, scenario, job, lastDetect>>
    /\ IF device_hdl = NULL \/ device_info = NULL
       THEN /\ Returned([op |-> "connect", ret |-> FALSE])
            /\ UNCHANGED <<usb_host_installed, client_hdl, device_hdl, device_info,
                           status, tape_width_px, is_connected, is_initialized,
                           initlog, sent>>
       ELSE \E claimOk, endpointsOk \in BOOLEAN :
            IF ~claimOk \/ ~endpointsOk
            THEN /\ Returned([op |-> "connect", ret |-> FALSE])
                 /\ UNCHANGED <<usb_host_installed, client_hdl, device_hdl, device_info,
                                status, tape_width_px, is_connected, is_initialized,
                                initlog, sent>>
            ELSE LET frames == initPrinter_frames(variant, Flags)
                 IN  \E ts \in [1..Len(frames) -> TransferResults] :
                        LET r == RunInit(frames, ts, 1, << >>)
                        IN  /\ sent' = r.log
                            /\ Returned([op |-> "connect", ret |-> r.ok])
                            /\ IF r.ok
                               THEN /\ is_connected' = TRUE
                                    /\ is_initialized' = TRUE
                                    /\ initlog' = frames
                                    /\ UNCHANGED <<usb_host_installed, client_hdl,
                                                   device_hdl, device_info, status,
                                                   tape_width_px>>
                               ELSE DisconnectEffect(TRUE)

\* void PtouchPrinter::disconnect()
disconnect ==
    /\ CallEntry
    /\ DisconnectEffect(is_connected)
    /\ Returned([op |-> "disconnect", ret |-> TRUE])
    /\ lastDetect' = "other"
    /\ UNCHANGED <<debug_vars, mock_vars, task_vars, variant, scenario, job, sent>>

\* client_event_cb: USB_HOST_CLIENT_EVENT_DEV_GONE, delivered while a transfer
\* waits for completion or between two calls
client_event_cb ==
    /\ pc # "returned"
    /\ client_hdl
    /\ is_connected
    /\ is_connected' = FALSE
    /\ UNCHANGED <<debug_vars, mock_vars, task_vars, variant, scenario, usb_host_installed, client_hdl, device_hdl, device_info,
                   status, tape_width_px, is_initialized, pc, job, initlog, sent,
                   lastCall, lastDetect>>

----------------------------------------------------------------------------
(* Status polling                                                          *)

\* getStatus with the memcpy and the tape lookup made before the length test
getStatus_result_copy_first(log, o, rc) ==
    IF ~is_connected
    THEN [ret |-> FALSE, status |-> status, tape |-> tape_width_px, log |-> log,
          received |-> -2, rx |-> << >>]
    ELSE IF o.res < 0
    THEN [ret |-> FALSE, status |-> status, tape |-> tape_width_px,
          log |-> Log(log, status_cmd, o), received |-> -2, rx |-> << >>]
    ELSE LET copied == [i \in 1..32 |-> IF i <= Len(rc.rx) THEN rc.rx[i] ELSE status[i]]
         IN  [ret |-> rc.received = 32, status |-> copied,
              tape |-> TapeLookup(1, stat_media_width(copied), tape_width_px),
              log |-> Log(log, status_cmd, o), received |-> rc.received, rx |-> rc.rx]

\* bool PtouchPrinter::getStatus(), given the outcome o of usbSend(status_cmd)
\* and the outcome rc of usbReceive(response, 32); `received' is -2 when
\* usbReceive was not reached
getStatus_result(log, o, rc) ==
    IF ~is_connected
    THEN [ret |-> FALSE, status |-> status, tape |-> tape_width_px, log |-> log,
          received |-> -2, rx |-> << >>]
    ELSE IF o.res < 0
    THEN [ret |-> FALSE, status |-> status, tape |-> tape_width_px,
          log |-> Log(log, status_cmd, o), received |-> -2, rx |-> << >>]
    ELSE IF rc.received = 32
    THEN [ret |-> TRUE, status |-> rc.rx,
          tape |-> TapeLookup(1, stat_media_width(rc.rx), tape_width_px),
          log |-> Log(log, status_cmd, o), received |-> rc.received, rx |-> rc.rx]
    ELSE [ret |-> FALSE, status |-> status, tape |-> tape_width_px,
          log |-> Log(log, status_cmd, o), received |-> rc.received, rx |-> rc.rx]

\* the record kept of a getStatus call
PollRecord(g) ==
    [op |-> "getStatus", ret |-> g.ret, received |-> g.received, rx |-> g.rx,
     pre_status |-> status, pre_tape |-> tape_width_px]

\* const char* PtouchPrinter::getErrorDescription() const
getErrorDescription_result(st) ==
    LET error == ptouch_stat(st).error
    IN  IF error = 0 THEN "No error"
        ELSE CASE error = 1   -> "No media"
               [] error = 2   -> "End of media"
               [] error = 4   -> "Cutter jam"
               [] error = 8   -> "Weak batteries"
               [] error = 16  -> "High voltage adapter"
               [] error = 64  -> "Replace media"
               [] error = 128 -> "Expansion buffer full"
               [] OTHER       -> "Unknown error"

\* a caller (the status handler) asks for the description of the error
getErrorDescription ==
    /\ CallEntry
    /\ Returned([op |-> "getErrorDescription", stat |-> ptouch_stat(status),
                 ret |-> getErrorDescription_result(status)])
    /\ UNCHANGED <<debug_vars, mock_vars, task_vars, variant, scenario, usb_host_installed, client_hdl,
                   device_hdl, device_info, status, tape_width_px, is_connected,
                   is_initialized, job, initlog, sent, lastDetect>>

\* a caller (the status task, the application) polls the printer
getStatus ==
    /\ CallEntry
    /\ \E o \in UsbSendOutcomes(Len(status_cmd)), rc \in UsbReceiveOutcomes :
          LET g == getStatus_result(<< >>, o, rc)
          IN  /\ status' = g.status
              /\ tape_width_px' = g.tape
              /\ sent' = g.log
              /\ Returned(PollRecord(g))
    /\ lastDetect' = "other"
    /\ UNCHANGED <<debug_vars, mock_vars, task_vars, variant, scenario, usb_host_installed, client_hdl, device_hdl, device_info,
                   is_connected, is_initialized, job, initlog>>

----------------------------------------------------------------------------
(* printBitmap, one step per blocking transport call                       *)

Img == Images[job.img]

\* number of sendRasterLine calls of the loop: rows in ptouch_printer.cpp,
\* columns in ptouch_printing.cpp
NumLines == IF variant = "printer" THEN Img.height ELSE Img.width

\* the transport calls of printBitmap in program order
Plan ==
    IF variant = "printer"
    THEN <<"status", "chain", "magic_chain", "magic", "packbits", "info",
           "rasterstart", "line", "finalize">>
    ELSE <<"status", "packbits", "rasterstart", "info", "magic_chain", "magic",
           "precut", "line", "finalize">>

\* printBitmap sending the PackBits, info and D460BT frames to every profile
Applicable_any_profile(step) ==
    CASE step = "chain"       -> job.chain
      [] step = "precut"      -> HasFlag(Flags, FLAG_HAS_PRECUT)
      [] step = "line"        -> NumLines > 0
      [] OTHER                -> TRUE

\* the condition under which printBitmap reaches a call
Applicable(step) ==
    CASE step = "chain"       -> HasFlag(Flags, FLAG_D460BT_MAGIC) /\ job.chain
      [] step = "magic_chain" -> HasFlag(Flags, FLAG_D460BT_MAGIC)
      [] step = "magic"       -> HasFlag(Flags, FLAG_D460BT_MAGIC)
      [] step = "packbits"    -> HasFlag(Flags, FLAG_RASTER_PACKBITS)
      [] step = "info"        -> HasFlag(Flags, FLAG_USE_INFO_CMD)
      [] step = "precut"      -> HasFlag(Flags, FLAG_HAS_PRECUT)
      [] step = "line"        -> NumLines > 0
      [] OTHER                -> TRUE

RECURSIVE FirstFrom(_)
FirstFrom(i) ==
    IF i >= Len(Plan) THEN Plan[Len(Plan)]
    ELSE IF Applicable(Plan[i]) THEN Plan[i]
    ELSE FirstFrom(i + 1)

StepIndex(step) == CHOOSE i \in 1..Len(Plan) : Plan[i] = step

\* the call that follows `step' when it succeeds
NextStep(step) == FirstFrom(StepIndex(step) + 1)

\* printBitmap returns b
Return(b) == pc' = "returned" /\ lastCall' = [op |-> "printBitmap", ret |-> b]

Running == [op |-> "printBitmap:running", ret |-> FALSE]

\* bool PtouchPrinter::printBitmap(bitmap, width, height, chain): the checks
\* made before the first transport call
printBitmap ==
    /\ CallEntry
    /\ \E i \in ImageChoices, chain \in BOOLEAN :
          LET img == Images[i]
              rejected ==
                  IF variant = "printer"
                  THEN \/ ~is_connected \/ img.null
                       \/ img.width <= 0 \/ img.height <= 0
                       \/ img.width > Info.max_px
                  ELSE ~is_connected \/ ~is_initialized \/ img.null
          IN  /\ job' = [img |-> i, chain |-> chain, n |-> 0, err |-> FALSE,
                          attempts |-> PollAttempts]
              /\ sent' = << >>
              /\ IF rejected
                 THEN Return(FALSE)
                 ELSE pc' = "status" /\ lastCall' = Running
    /\ lastDetect' = "other"
    /\ UNCHANGED <<debug_vars, mock_vars, task_vars, variant, scenario, usb_host_installed, client_hdl, device_hdl, device_info,
                   status, tape_width_px, is_connected, is_initialized, initlog>>

\* printBitmap: getStatus() and the check made on its result
\* (hasError in ptouch_printer.cpp, height > tape_width in ptouch_printing.cpp)
JobStatus ==
    /\ pc = "status"
    /\ \E o \in UsbSendOutcomes(Len(status_cmd)), rc \in UsbReceiveOutcomes :
          LET g == getStatus_result(sent, o, rc)
          IN  /\ status' = g.status
              /\ tape_width_px' = g.tape
              /\ sent' = g.log
              /\ job' = [job EXCEPT !.err = @ \/ TransportError(o),
                                   !.attempts = PollAttempts]
              /\ IF ~g.ret
                 THEN Return(FALSE)
                 ELSE IF variant = "printer"
                 THEN IF stat_error(g.status) # 0
                      THEN Return(FALSE)
                      ELSE pc' = NextStep("status") /\ UNCHANGED lastCall
                 ELSE IF Img.height > g.tape
                      THEN Return(FALSE)
                      ELSE pc' = NextStep("status") /\ UNCHANGED lastCall
    /\ UNCHANGED <<debug_vars, mock_vars, task_vars, variant, scenario, usb_host_installed, client_hdl, device_hdl, device_info,
                   is_connected, is_initialized, initlog, lastDetect>>

\* one helper call of printBitmap: usbSend(frame), failure decided as `kind'
SendStep(step, frame, kind) ==
    /\ pc = step
    /\ \E o \in UsbSendOutcomes(Len(frame)) :
          /\ sent' = Log(sent, frame, o)
          /\ job' = [job EXCEPT !.err = @ \/ TransportError(o),
                             !.attempts = IF Failed(kind, o.res) THEN @ ELSE PollAttempts]
          /\ IF Failed(kind, o.res)
             THEN Return(FALSE)
             ELSE pc' = NextStep(step) /\ UNCHANGED lastCall
    /\ UNCHANGED <<debug_vars, mock_vars, task_vars, variant, scenario, usb_host_installed, client_hdl, device_hdl, device_info,
                   status, tape_width_px, is_connected, is_initialized,
                   initlog, lastDetect>>

\* printBitmap of ptouch_printer.cpp: usbSend(chain_cmd) when chain is set
JobChain == SendStep("chain", chain_cmd(variant), "neg")

\* sendMagicCommands: first usbSend
JobMagicChain == SendStep("magic_chain", chain_cmd(variant), "neg")

\* sendMagicCommands: second usbSend
JobMagic == SendStep("magic", magic_cmd(variant), "neg")

\* enablePackBits
JobPackBits == SendStep("packbits", enablePackBits_cmd(variant), "pos")

\* sendInfoCommand(height) in ptouch_printer.cpp, sendInfoCommand(width) in
\* ptouch_printing.cpp
JobInfo ==
    SendStep("info",
             sendInfoCommand_cmd(variant, Flags, stat_media_width(status),
                                 IF variant = "printer" THEN Img.height ELSE Img.width),
             "pos")

\* rasterStart
JobRasterStart == SendStep("rasterstart", rasterStart_cmd(variant, Flags), "pos")

\* sendPreCutCommand(1)
JobPreCut == SendStep("precut", sendPreCutCommand_cmd(1), "pos")

\* printBitmap of ptouch_printing.cpp without the centering offset
LineData_uncentered(n) ==
    IF variant = "printer"
    THEN LET bytes_per_line == (Img.width + 7) \div 8
         IN  SubSeq(Img.bitmap, n * bytes_per_line + 1, (n + 1) * bytes_per_line)
    ELSE LET size == Info.max_px \div 8
         IN  setRasterPixel(size, ColumnPixels(Img, n, 0))

\* the data of the n-th sendRasterLine call of the loop (n from 0)
LineData(n) ==
    IF variant = "printer"
    THEN LET bytes_per_line == (Img.width + 7) \div 8
         IN  SubSeq(Img.bitmap, n * bytes_per_line + 1, (n + 1) * bytes_per_line)
    ELSE LET size == Info.max_px \div 8
             offset == (Info.max_px \div 2) - (Img.height \div 2)
         IN  setRasterPixel(size, ColumnPixels(Img, n, offset))

\* printBitmap: one pass of the loop over sendRasterLine
JobLine ==
    /\ pc = "line"
    /\ LET data == LineData(job.n)
       IN  IF RasterLineTooLong(variant, Info.max_px, Len(data))
           THEN Return(FALSE) /\ UNCHANGED <<sent, job>>
           ELSE LET frame == sendRasterLine_cmd(variant, Flags, data)
                IN  \E o \in UsbSendOutcomes(Len(frame)) :
                       /\ sent' = Log(sent, frame, o)
                       /\ IF Failed("pos", o.res)
                          THEN /\ Return(FALSE)
                               /\ job' = [job EXCEPT !.err = @ \/ TransportError(o)]
                          ELSE /\ job' = [job EXCEPT !.n = @ + 1, !.attempts = PollAttempts]
                               /\ pc' = (IF job.n + 1 < NumLines
                                         THEN "line" ELSE "finalize")
                               /\ UNCHANGED lastCall
    /\ UNCHANGED <<debug_vars, mock_vars, task_vars, variant, scenario, usb_host_installed, client_hdl, device_hdl, device_info,
                   status, tape_width_px, is_connected, is_initialized, initlog,
                   lastDetect>>

\* printBitmap: finalizePrint(chain) and the test made on its result.
\* ptouch_printer.cpp: if (!finalizePrint(chain)) return false;
\* ptouch_printing.cpp: if (finalizePrint(chain) != 0) return false; on a bool
JobFinalize ==
    /\ pc = "finalize"
    /\ IF ~is_connected
       THEN Return(variant # "printer") /\ UNCHANGED <<sent, job>>
       ELSE LET frame == finalizePrint_cmd(variant, Flags, job.chain)
            IN  \E o \in UsbSendOutcomes(Len(frame)) :
                   /\ sent' = Log(sent, frame, o)
                   /\ job' = [job EXCEPT !.err = @ \/ TransportError(o),
                                      !.attempts = IF variant # "printer" /\ ~Failed("nz", o.res)
                                                       /\ ~job.chain
                                                    THEN PollAttempts ELSE @]
                   /\ IF variant = "printer"
                      THEN Return(o.res > 0)
                      ELSE IF Failed("nz", o.res)
                      THEN Return(TRUE)
                      ELSE IF ~job.chain
                      THEN pc' = "formfeed" /\ UNCHANGED lastCall
                      ELSE Return(FALSE)
    /\ UNCHANGED <<debug_vars, mock_vars, task_vars, variant, scenario, usb_host_installed, client_hdl, device_hdl, device_info,
                   status, tape_width_px, is_connected, is_initialized,
                   initlog, lastDetect>>

\* finalizePrint of ptouch_printing.cpp: usbSend(ff_cmd) when chain is not set
JobFormFeed ==
    /\ pc = "formfeed"
    /\ \E o \in UsbSendOutcomes(Len(ff_cmd)) :
          /\ sent' = Log(sent, ff_cmd, o)
          /\ job' = [job EXCEPT !.err = @ \/ TransportError(o)]
          /\ Return(Failed("nz", o.res))
    /\ UNCHANGED <<debug_vars, mock_vars, task_vars, variant, scenario, usb_host_installed, client_hdl, device_hdl, device_info,
                   status, tape_width_px, is_connected, is_initialized,
                   initlog, lastDetect>>

\* a wait that starts over when its attempts run out
usbSend_wait_rearmed ==
    /\ pc \notin {"idle", "returned", "panic"}
    /\ is_connected /\ device_hdl # NULL
    /\ job' = [job EXCEPT !.attempts = IF @ > 0 THEN @ - 1 ELSE PollAttempts]
    /\ UNCHANGED <<debug_vars, mock_vars, task_vars, variant, scenario, usb_host_installed,
                   client_hdl, device_hdl, device_info, status, tape_width_px,
                   is_connected, is_initialized, pc, initlog, sent, lastCall, lastDetect>>

\* usbSend and usbReceive, "Wait for completion": one pass of
\* while (... && attempts-- > 0) for the transfer of the job's current step;
\* the step itself ends the wait with the outcome of the transfer
usbSend_wait ==
    /\ pc \notin {"idle", "returned", "panic"}
    /\ is_connected /\ device_hdl # NULL
    /\ job.attempts > 0
    /\ job' = [job EXCEPT !.attempts = @ - 1]
    /\ UNCHANGED <<debug_vars, mock_vars, task_vars, variant, scenario, usb_host_installed,
                   client_hdl, device_hdl, device_info, status, tape_width_px,
                   is_connected, is_initialized, pc, initlog, sent, lastCall, lastDetect>>

\* printBitmap of ptouch_printing.cpp run over a transport that accepts every
\* frame, for the profile, status frame, tape width and request of the current
\* job: what it returns and the frames it hands over, in order
printBitmap_printing ==
    LET flag(f) == HasFlag(Flags, f)
        opt(c, frames) == IF c THEN frames ELSE << >>
        size == Info.max_px \div 8
        offset == (Info.max_px \div 2) - (Img.height \div 2)
        line(x) == sendRasterLine_cmd("printing", Flags,
                                      setRasterPixel(size, ColumnPixels(Img, x, offset)))
    IN  IF ~is_connected \/ ~is_initialized \/ Img.null
        THEN [ret |-> FALSE, frames |-> << >>]
        ELSE IF Img.height > tape_width_px
        THEN [ret |-> FALSE, frames |-> << status_cmd >>]
        ELSE [ret |-> TRUE,
              frames |->
                 << status_cmd >>
                 \o opt(flag(FLAG_RASTER_PACKBITS), << enablePackBits_cmd("printing") >>)
                 \o << rasterStart_cmd("printing", Flags) >>
                 \o opt(flag(FLAG_USE_INFO_CMD),
                        << sendInfoCommand_cmd("printing", Flags, stat_media_width(status),
                                               Img.width) >>)
                 \o opt(flag(FLAG_D460BT_MAGIC),
                        << chain_cmd("printing"), magic_cmd("printing") >>)
                 \o opt(flag(FLAG_HAS_PRECUT), << sendPreCutCommand_cmd(1) >>)
                 \o [i \in 1..Img.width |-> line(i - 1)]
                 \o << finalizePrint_cmd("printing", Flags, job.chain) >>]

----------------------------------------------------------------------------
(* sendRasterLine called on its own                                        *)

\* the line lengths a caller passes
LineLengths == {0, 1, 14, 15, 16, 17, 48, 49, 90, 91}

\* the payload of a line of len bytes
LinePayload(len) == [i \in 1..len |-> (i * 37 + len) % 256]

\* int PtouchPrinter::sendRasterLine(data, len), with a profile selected
sendRasterLine ==
    /\ CallEntry
    /\ device_info # NULL
    /\ \E len \in LineLengths :
          LET data == LinePayload(len)
              rec(r) == [op |-> "sendRasterLine", ret |-> (r = 0), len |-> len,
                         data |-> data]
          IN  IF RasterLineTooLong(variant, Info.max_px, len)
              THEN sent' = << >> /\ Returned(rec(-1))
              ELSE LET frame == sendRasterLine_cmd(variant, Flags, data)
                   IN  \E o \in UsbSendOutcomes(Len(frame)) :
                          /\ sent' = Log(<< >>, frame, o)
                          /\ Returned(rec(IF o.res > 0 THEN 0 ELSE -1))
    /\ lastDetect' = "other"
    /\ UNCHANGED <<debug_vars, mock_vars, task_vars, variant, scenario, usb_host_installed, client_hdl, device_hdl, device_info,
                   status, tape_width_px, is_connected, is_initialized, job,
                   initlog>>

----------------------------------------------------------------------------
(* The specification                                                       *)

Next ==
    \/ begin
    \/ detectPrinter
    \/ connect
    \/ disconnect
    \/ client_event_cb
    \/ getStatus
    \/ printBitmap
    \/ JobStatus
    \/ JobChain
    \/ JobMagicChain
    \/ JobMagic
    \/ JobPackBits
    \/ JobInfo
    \/ JobRasterStart
    \/ JobPreCut
    \/ JobLine
    \/ JobFinalize
    \/ JobFormFeed
    \/ sendRasterLine
    \/ Resume

Spec == Init /\ [][Next]_vars

\* a step of the task that runs printBitmap
JobStep ==
    \/ JobStatus
    \/ JobChain
    \/ JobMagicChain
    \/ JobMagic
    \/ JobPackBits
    \/ JobInfo
    \/ JobRasterStart
    \/ JobPreCut
    \/ JobLine
    \/ JobFinalize
    \/ JobFormFeed
    \/ usbSend_wait

\* print jobs of the component builds with the wait loops of their transfers:
\* one printer of any decisive profile, the short images, the empty image and
\* the null bitmap
InitTermination ==
    Constructed /\ scenario = "termination" /\ variant \in {"printer", "printing"}

NextTermination ==
    \/ begin
    \/ detectPrinter
    \/ connect
    \/ client_event_cb
    \/ printBitmap
    \/ JobStep
    \/ Resume

\* the task that called printBitmap keeps being scheduled
SpecTermination ==
    InitTermination /\ [][NextTermination]_vars /\ WF_vars(JobStep)

\* the PT-D460BT scenario: the profile has no RasterPackBits, so enablePackBits
\* is never called
NextD460BT ==
    \/ begin
    \/ detectPrinter
    \/ connect
    \/ disconnect
    \/ client_event_cb
    \/ getStatus
    \/ printBitmap
    \/ JobStatus
    \/ JobChain
    \/ JobMagicChain
    \/ JobMagic
    \/ JobInfo
    \/ JobRasterStart
    \/ JobPreCut
    \/ JobLine
    \/ JobFinalize
    \/ JobFormFeed
    \/ Resume

SpecD460BT == InitD460BT /\ [][NextD460BT]_vars

\* the status path alone: one printer on the bus that answers with ProbeFrames
InitStatus == Constructed /\ scenario = "status" /\ variant = "printer"

NextStatus ==
    \/ begin
    \/ detectPrinter
    \/ connect
    \/ disconnect
    \/ getStatus
    \/ getErrorDescription
    \/ Resume

SpecStatus == InitStatus /\ [][NextStatus]_vars

----------------------------------------------------------------------------
(* The device catalog and its listings                                     *)

\* listSupportedPrinters logging every entry of the catalog
RECURSIVE listSupportedPrinters_unfiltered(_)
listSupportedPrinters_unfiltered(i) ==
    IF i > Len(supported_devices) \/ supported_devices[i].vid = 0
    THEN << >>
    ELSE << [name |-> supported_devices[i].name, vid |-> supported_devices[i].vid,
             pid |-> supported_devices[i].pid] >>
         \o listSupportedPrinters_unfiltered(i + 1)

\* PtouchPrinter::listSupportedPrinters: the lines logged by the loop from
\* entry i on (the loop ends at the terminator entry, whose vid is 0)
RECURSIVE listSupportedPrinters_lines(_)
listSupportedPrinters_lines(i) ==
    IF i > Len(supported_devices) \/ supported_devices[i].vid = 0
    THEN << >>
    ELSE IF ~HasFlag(supported_devices[i].flags, FLAG_PLITE)
    THEN << [name |-> supported_devices[i].name, vid |-> supported_devices[i].vid,
             pid |-> supported_devices[i].pid] >>
         \o listSupportedPrinters_lines(i + 1)
    ELSE listSupportedPrinters_lines(i + 1)

\* api_printers_get_handler: the objects added to the "printers" array by the
\* loop from entry i on
RECURSIVE api_printers_get_handler_array(_)
api_printers_get_handler_array(i) ==
    IF i > Len(supported_devices) \/ supported_devices[i].vid = 0
    THEN << >>
    ELSE IF ~HasFlag(supported_devices[i].flags, FLAG_PLITE)
    THEN << [name |-> supported_devices[i].name, vid |-> supported_devices[i].vid,
             pid |-> supported_devices[i].pid, maxWidth |-> supported_devices[i].max_px,
             dpi |-> supported_devices[i].dpi] >>
         \o api_printers_get_handler_array(i + 1)
    ELSE api_printers_get_handler_array(i + 1)

\* void PtouchPrinter::listSupportedPrinters()
listSupportedPrinters ==
    /\ CallEntry
    /\ Returned([op |-> "listSupportedPrinters", ret |-> listSupportedPrinters_lines(1)])
    /\ UNCHANGED <<debug_vars, mock_vars, task_vars, variant, scenario, usb_host_installed, client_hdl,
                   device_hdl, device_info, status, tape_width_px, is_connected,
                   is_initialized, job, initlog, sent, lastDetect>>

\* GET /api/printers
api_printers_get_handler ==
    /\ CallEntry
    /\ Returned([op |-> "api_printers_get_handler", ret |-> api_printers_get_handler_array(1)])
    /\ UNCHANGED <<debug_vars, mock_vars, task_vars, variant, scenario, usb_host_installed, client_hdl,
                   device_hdl, device_info, status, tape_width_px, is_connected,
                   is_initialized, job, initlog, sent, lastDetect>>

\* every entry of the catalog is plugged in once, alone or behind a device
\* the scan skips
InitCatalog == Constructed /\ scenario = "catalog" /\ variant = "printer"

NextCatalog ==
    \/ begin
    \/ detectPrinter
    \/ connect
    \/ disconnect
    \/ listSupportedPrinters
    \/ api_printers_get_handler
    \/ Resume

SpecCatalog == InitCatalog /\ [][NextCatalog]_vars

----------------------------------------------------------------------------
(* The tasks of main.cpp: the HTTP server task, which runs the print and   *)
(* reconnect handlers, and printer_status_task. Both call into the same    *)
(* PtouchPrinter; main.cpp takes no lock around the calls.                 *)

\* init_printer (and the reconnect branch of printer_status_task): connect()
\* has returned true and the caller sets printerConnected
init_printer ==
    /\ pc = "returned" /\ lastCall.op = "connect" /\ lastCall.ret
    /\ printerConnected' = TRUE
    /\ pc' = "idle"
    /\ sent' = << >>
    /\ job' = NoJob
    /\ lastCall' = NoCall
    /\ lastDetect' = "other"
    /\ UNCHANGED <<debug_vars, mock_vars, status_task, variant, scenario, usb_host_installed,
                   client_hdl, device_hdl, device_info, status, tape_width_px,
                   is_connected, is_initialized, initlog>>

\* any other call returns to its caller in main.cpp
caller_resumes ==
    /\ ~(lastCall.op = "connect" /\ lastCall.ret)
    /\ Resume

\* api_print_text_post_handler: if (!printerConnected || !printer) the request
\* is turned down, else printText renders the text and calls printBitmap
api_print_text_post_handler ==
    /\ printerConnected
    /\ printBitmap

\* printer_status_task, if (printerConnected && printer): getStatus() up to the
\* return of usbSend; a false result clears printerConnected
printer_status_task ==
    /\ status_task.pc = "delay"
    /\ status_task.polls < MaxPolls
    /\ printerConnected
    /\ IF ~is_connected
       THEN /\ printerConnected' = FALSE
            /\ status_task' = [status_task EXCEPT !.polls = @ + 1]
            /\ UNCHANGED sent
       ELSE \E o \in UsbSendOutcomes(Len(status_cmd)) :
               /\ sent' = Log(sent, status_cmd, o)
               /\ printerConnected' = (o.res >= 0)
               /\ status_task' = [pc |-> IF o.res < 0 THEN "delay" ELSE "receive",
                                  polls |-> status_task.polls + 1,
                                  at |-> IF o.handed THEN Len(sent) + 1 ELSE status_task.at]
    /\ UNCHANGED <<debug_vars, mock_vars, variant, scenario, usb_host_installed, client_hdl,
                   device_hdl, device_info, status, tape_width_px, is_connected,
                   is_initialized, pc, job, initlog, lastCall, lastDetect>>

\* printer_status_task: the rest of getStatus(), from usbReceive on, and the
\* test of its result
printer_status_task_receive ==
    /\ status_task.pc = "receive"
    /\ \E rc \in UsbReceiveOutcomes :
          LET g == getStatus_result(<< >>, [handed |-> TRUE, res |-> Len(status_cmd)], rc)
          IN  /\ status' = g.status
              /\ tape_width_px' = g.tape
              /\ printerConnected' = (printerConnected /\ g.ret)
    /\ status_task' = [status_task EXCEPT !.pc = "delay"]
    /\ UNCHANGED <<debug_vars, mock_vars, variant, scenario, usb_host_installed, client_hdl,
                   device_hdl, device_info, is_connected, is_initialized, pc, job,
                   initlog, sent, lastCall, lastDetect>>

\* printer_status_task, else branch: printer->detectPrinter() and, if it
\* found the printer, printer->connect(), which calls disconnect() when
\* initPrinter fails; the task runs them whatever the HTTP server task is doing
printer_status_task_reconnect ==
    /\ status_task.pc = "delay"
    /\ status_task.polls < MaxPolls
    /\ ~printerConnected
    /\ status_task' = [status_task EXCEPT !.polls = @ + 1]
    /\ \E devs \in DeviceLists, listOk, claimOk, endpointsOk \in BOOLEAN :
          LET r == IF ~client_hdl \/ ~listOk
                   THEN [ret |-> FALSE, hdl |-> NULL, info |-> NULL]
                   ELSE ScanDevices(devs, 1, FALSE)
          IN  IF ~r.ret \/ ~claimOk \/ ~endpointsOk
              THEN /\ device_hdl' = (IF r.ret THEN r.hdl ELSE device_hdl)
                   /\ device_info' = (IF r.ret THEN r.info ELSE device_info)
                   /\ UNCHANGED <<usb_host_installed, client_hdl, status, tape_width_px,
                                  is_connected, is_initialized, initlog, sent,
                                  printerConnected>>
              ELSE LET frames == initPrinter_frames(variant, supported_devices[r.info].flags)
                   IN  \E ts \in [1..Len(frames) -> TransferResults] :
                          LET i == RunInit(frames, ts, 1, sent)
                          IN  /\ sent' = i.log
                              /\ printerConnected' = i.ok
                              /\ IF i.ok
                                 THEN /\ device_hdl' = r.hdl
                                      /\ device_info' = r.info
                                      /\ is_connected' = TRUE
                                      /\ is_initialized' = TRUE
                                      /\ initlog' = frames
                                      /\ UNCHANGED <<usb_host_installed, client_hdl,
                                                     status, tape_width_px>>
                                 ELSE DisconnectEffect(TRUE)
    /\ UNCHANGED <<debug_vars, mock_vars, variant, scenario, pc, job, lastCall, lastDetect>>

\* a step of printBitmap that dereferences device_info == nullptr traps and
\* the task that runs the job ends
null_dereference ==
    /\ pc \notin {"idle", "returned", "status", "panic"}
    /\ device_info = NULL
    /\ pc' = "panic"
    /\ UNCHANGED <<debug_vars, mock_vars, task_vars, variant, scenario, usb_host_installed,
                   client_hdl, device_hdl, device_info, status, tape_width_px,
                   is_connected, is_initialized, job, initlog, sent, lastCall, lastDetect>>

\* one PT-D460BT on the bus; the application of main.cpp with its two tasks
InitTasks == Constructed /\ scenario = "tasks" /\ variant \in {"printer", "printing"}

NextTasks ==
    \/ begin
    \/ detectPrinter
    \/ connect
    \/ init_printer
    \/ disconnect
    \/ api_print_text_post_handler
    \/ JobStatus
    \/ JobChain
    \/ JobMagicChain
    \/ JobMagic
    \/ JobInfo
    \/ JobRasterStart
    \/ JobPreCut
    \/ JobLine
    \/ JobFinalize
    \/ caller_resumes
    \/ printer_status_task
    \/ printer_status_task_receive
    \/ printer_status_task_reconnect
    \/ null_dereference

SpecTasks == InitTasks /\ [][NextTasks]_vars

----------------------------------------------------------------------------
(* The status-monitoring task over time: a PT-D460BT stays attached, the   *)
(* transport fails at will until it recovers and works from then on        *)

\* the transport has recovered: every list, claim and transfer succeeds
TransportWorks == scenario = "monitor_ok"

\* from here on the transport works
transport_recovers ==
    /\ scenario = "monitor"
    /\ scenario' = "monitor_ok"
    /\ UNCHANGED <<debug_vars, mock_vars, task_vars, variant, usb_host_installed,
                   client_hdl, device_hdl, device_info, status, tape_width_px,
                   is_connected, is_initialized, pc, job, initlog, sent, lastCall,
                   lastDetect>>

\* what the calls of one iteration may answer
Answers == IF TransportWorks THEN {TRUE} ELSE BOOLEAN
InitAnswers(n) == IF TransportWorks THEN {[i \in 1..n |-> "all"]}
                  ELSE [1..n -> TransferResults]
SendAnswers(len) == IF TransportWorks
                    THEN {o \in UsbSendOutcomes(len) : o.handed => o.res = len}
                    ELSE UsbSendOutcomes(len)

\* printer_status_task: one iteration of its while (1) loop; the frame log is
\* not kept here
printer_status_task_loop ==
    /\ UNCHANGED <<debug_vars, mock_vars, status_task, variant, scenario, pc, job,
                   sent, lastCall, lastDetect>>
    /\ IF printerConnected
       THEN \E o \in SendAnswers(Len(status_cmd)), rc \in UsbReceiveOutcomes :
               LET g == getStatus_result(<< >>, o, rc)
               IN  /\ status' = g.status
                   /\ tape_width_px' = g.tape
                   /\ printerConnected' = g.ret
                   /\ UNCHANGED <<usb_host_installed, client_hdl, device_hdl,
                                  device_info, is_connected, is_initialized, initlog>>
       ELSE \E devs \in DeviceLists, listOk, claimOk, endpointsOk \in Answers :
               LET r == IF ~client_hdl \/ ~listOk
                        THEN [ret |-> FALSE, hdl |-> NULL, info |-> NULL]
                        ELSE ScanDevices(devs, 1, FALSE)
               IN  IF ~r.ret \/ ~claimOk \/ ~endpointsOk
                   THEN /\ device_hdl' = (IF r.ret THEN r.hdl ELSE device_hdl)
                        /\ device_info' = (IF r.ret THEN r.info ELSE device_info)
                        /\ UNCHANGED <<usb_host_installed, client_hdl, status,
                                       tape_width_px, is_connected, is_initialized,
                                       initlog, printerConnected>>
                   ELSE LET frames == initPrinter_frames(variant,
                                          supported_devices[r.info].flags)
                        IN  \E ts \in InitAnswers(Len(frames)) :
                               LET i == RunInit(frames, ts, 1, << >>)
                               IN  /\ printerConnected' = i.ok
                                   /\ IF i.ok
                                      THEN /\ device_hdl' = r.hdl
                                           /\ device_info' = r.info
                                           /\ is_connected' = TRUE
                                           /\ is_initialized' = TRUE
                                           /\ initlog' = frames
                                           /\ UNCHANGED <<usb_host_installed, client_hdl,
                                                          status, tape_width_px>>
                                      ELSE DisconnectEffect(TRUE)

\* api_reconnect_post_handler: printer->disconnect(); init_printer(), which is
\* begin, detectPrinter, connect, each only if the one before succeeded
api_reconnect_post_handler ==
    /\ UNCHANGED <<debug_vars, mock_vars, status_task, variant, scenario, pc, job,
                   sent, lastCall, lastDetect>>
    /\ \E devs \in DeviceLists,
          installOk, registerOk, listOk, claimOk, endpointsOk \in Answers :
          LET r == IF ~listOk THEN [ret |-> FALSE, hdl |-> NULL, info |-> NULL]
                   ELSE ScanDevices(devs, 1, FALSE)
          IN  IF ~installOk \/ ~registerOk
              THEN DisconnectEffect(is_connected) /\ UNCHANGED printerConnected
              ELSE IF ~r.ret \/ ~claimOk \/ ~endpointsOk
              THEN /\ usb_host_installed' = TRUE
                   /\ client_hdl' = TRUE
                   /\ device_hdl' = (IF r.ret THEN r.hdl ELSE NULL)
                   /\ device_info' = (IF r.ret THEN r.info ELSE NULL)
                   /\ status' = Zeros(32) /\ tape_width_px' = 0
                   /\ is_connected' = FALSE
                   /\ is_initialized' = (IF is_connected THEN FALSE ELSE is_initialized)
                   /\ initlog' = << >>
                   /\ UNCHANGED printerConnected
              ELSE LET frames == initPrinter_frames(variant,
                                     supported_devices[r.info].flags)
                   IN  \E ts \in InitAnswers(Len(frames)) :
                          LET i == RunInit(frames, ts, 1, << >>)
                          IN  IF i.ok
                              THEN /\ usb_host_installed' = TRUE
                                   /\ client_hdl' = TRUE
                                   /\ device_hdl' = r.hdl
                                   /\ device_info' = r.info
                                   /\ status' = Zeros(32) /\ tape_width_px' = 0
                                   /\ is_connected' = TRUE
                                   /\ is_initialized' = TRUE
                                   /\ initlog' = frames
                                   /\ printerConnected' = TRUE
                              ELSE DisconnectEffect(TRUE) /\ UNCHANGED printerConnected

\* app_main has run init_printer, which connected the PT-D460BT, and has
\* created the status task
InitMonitor ==
    LET d == CHOOSE i \in DOMAIN supported_devices : supported_devices[i].pid = 8416
    IN  /\ scenario = "monitor" /\ variant \in {"printer", "printing"}
        /\ usb_host_installed = TRUE /\ client_hdl = TRUE
        /\ device_hdl = 8416 /\ device_info = d
        /\ status = Zeros(32) /\ tape_width_px = 0
        /\ is_connected = TRUE /\ is_initialized = TRUE
        /\ pc = "idle" /\ job = NoJob /\ sent = << >>
        /\ initlog = initPrinter_frames(variant, supported_devices[d].flags)
        /\ lastCall = NoCall /\ lastDetect = "other"
        /\ g_ptouch_debug_logger = NoLogger /\ esp_timer = 0
        /\ printerConnected = TRUE /\ status_task = TaskDelayed
        /\ usb = MockUSBHost /\ test = NoTest

\* the device drops off the bus only while the transport is unsound; the
\* reconnect request comes when the user sends it; the task runs throughout
NextMonitor ==
    \/ (~TransportWorks /\ client_event_cb)
    \/ api_reconnect_post_handler
    \/ transport_recovers
    \/ printer_status_task_loop

\* the scheduler runs the task again and again (vTaskDelay in its loop)
SpecMonitor == InitMonitor /\ [][NextMonitor]_vars /\ WF_vars(printer_status_task_loop)

----------------------------------------------------------------------------
(* Protocol classifier of ptouch_debug.c                                   *)

\* the fields of PtouchPrinter, which ptouch_debug.c never touches
printer_fields == <<variant, scenario, usb_host_installed, client_hdl, device_hdl,
                    device_info, status, tape_width_px, is_connected, is_initialized,
                    job, initlog, sent, lastDetect, printerConnected, status_task>>

\* ptouch_debug_identify_command: switch (data[2]) of an ESC i sequence,
\* "none" when no case returns
EscICode(c) ==
    CASE c = 83  -> "PTOUCH_CMD_STATUS_REQUEST"
      [] c = 122 -> "PTOUCH_CMD_INFO"
      [] c = 82  -> "PTOUCH_CMD_RASTER_START"
      [] c = 97  -> "PTOUCH_CMD_RASTER_START"
      [] c = 77  -> "PTOUCH_CMD_PRECUT"
      [] c = 75  -> "PTOUCH_CMD_D460BT_CHAIN"
      [] c = 100 -> "PTOUCH_CMD_D460BT_MAGIC"
      [] OTHER   -> "none"

\* ptouch_debug_identify_command: switch (data[0]) of the single byte commands
SingleByteCode(b) ==
    CASE b = 26 -> "PTOUCH_CMD_FINALIZE"
      [] b = 12 -> "PTOUCH_CMD_CUT_PAPER"
      [] b = 90 -> "PTOUCH_CMD_FEED_PAPER"
      [] OTHER  -> "none"

\* ptouch_debug_identify_command: the block guarded by if (length >= 2),
\* "none" when it falls through
CommonPatterns(data) ==
    LET length == Len(data)
        esc_i == IF data[1] = 27 /\ length >= 3 /\ data[2] = 105
                 THEN EscICode(data[3]) ELSE "none"
    IN  IF esc_i # "none" THEN esc_i
        ELSE IF data[1] = 27 /\ data[2] = 64 THEN "PTOUCH_CMD_INIT"
        ELSE IF data[1] = 77 /\ data[2] = 2 THEN "PTOUCH_CMD_PACKBITS_ENABLE"
        ELSE IF data[1] = 71 THEN "PTOUCH_CMD_RASTER_LINE"
        ELSE IF length = 1 THEN SingleByteCode(data[1])
        ELSE "none"

\* ptouch_debug_identify_command: the long initialization sequence
LongInitSequence(data) ==
    /\ Len(data) >= 102
    /\ \A i \in 1..100 : data[i] = 0
    /\ data[101] = 27 /\ data[102] = 64

\* ptouch_protocol_cmd_t ptouch_debug_identify_command(data, length);
\* the empty sequence also stands for data == NULL
ptouch_debug_identify_command(data) ==
    IF Len(data) = 0 THEN "PTOUCH_CMD_UNKNOWN"
    ELSE LET common == IF Len(data) >= 2 THEN CommonPatterns(data) ELSE "none"
         IN  IF common # "none" THEN common
             ELSE IF LongInitSequence(data) THEN "PTOUCH_CMD_INIT"
             ELSE "PTOUCH_CMD_UNKNOWN"

\* snprintf("%zu"): the decimal digits of n
RECURSIVE FormatDecimal(_)
FormatDecimal(n) ==
    IF n < 10 THEN <<n>> ELSE Append(FormatDecimal(n \div 10), n % 10)

\* a description: the text before the number, the digits printed for %zu
\* (none when the format has no %zu), the text after
Desc(head, digits, tail) == [head |-> head, digits |-> digits, tail |-> tail]

\* const char* ptouch_debug_get_command_description(data, length)
ptouch_debug_get_command_description(data) ==
    LET cmd == ptouch_debug_identify_command(data)
        length == Len(data)
        plain(text) == Desc(text, << >>, "")
        sized(text) == Desc(text, FormatDecimal(length), " bytes)")
    IN  CASE cmd = "PTOUCH_CMD_INIT" ->
                 IF length >= 102 THEN sized("Invalidate + Init (")
                 ELSE plain("Init command")
          [] cmd = "PTOUCH_CMD_STATUS_REQUEST" -> plain("Status request")
          [] cmd = "PTOUCH_CMD_INFO" -> sized("Info command (")
          [] cmd = "PTOUCH_CMD_PACKBITS_ENABLE" -> plain("Enable PackBits compression")
          [] cmd = "PTOUCH_CMD_RASTER_START" ->
                 IF length >= 3 /\ data[2] = 105 /\ data[3] = 97
                 THEN plain("Start raster mode (P700)")
                 ELSE plain("Start raster mode")
          [] cmd = "PTOUCH_CMD_RASTER_LINE" -> sized("Raster line (")
          [] cmd = "PTOUCH_CMD_PRECUT" -> plain("Precut command")
          [] cmd = "PTOUCH_CMD_FINALIZE" -> plain("Print and eject")
          [] cmd = "PTOUCH_CMD_D460BT_MAGIC" -> plain("D460BT magic sequence")
          [] cmd = "PTOUCH_CMD_D460BT_CHAIN" -> plain("D460BT chain command")
          [] cmd = "PTOUCH_CMD_FEED_PAPER" -> plain("Feed paper (line feed)")
          [] cmd = "PTOUCH_CMD_CUT_PAPER" -> plain("Cut paper (form feed)")
          [] OTHER -> sized("Unknown command (")

\* raster line frames sendRasterLine of ptouch_printer.cpp emits: every
\* catalog profile, every accepted line length
RasterLineFrames ==
    UNION { { sendRasterLine_cmd("printer", supported_devices[d].flags, LinePayload(len)) :
                len \in {l \in LineLengths :
                            ~RasterLineTooLong("printer", supported_devices[d].max_px, l)} } :
            d \in 1..Len(supported_devices) }

\* buffers handed to the classifier: nothing, every single byte, every
\* ESC i <code> with and without following bytes, the other short patterns and
\* their near misses, long sequences around the 102-byte invalidate frame,
\* and the frames of the engine
Buffers ==
    {<< >>}
    \cup { <<b>> : b \in 0..255 }
    \cup { <<27, 105, c>> : c \in 0..255 }
    \cup { <<27, 105, c, 1, 0>> : c \in {83, 122, 82, 97, 77, 75, 100, 64, 0} }
    \cup { <<27, 105>>, <<27, 64>>, <<27, 64, 0>>, <<27, 65>>, <<77, 2>>, <<77, 2, 0>>,
           <<77, 3>>, <<71, 0>>, <<0, 0>>, <<26, 0>>, <<12, 12>>, <<0, 27, 64>> }
    \cup { Zeros(100) \o <<27, 64>>, Zeros(100) \o <<27, 64, 0>>,
           Zeros(101) \o <<27, 64>>, Zeros(99) \o <<27, 64>>,
           Zeros(100) \o <<27, 65>>, Zeros(102),
           <<27, 64>> \o Zeros(98) \o <<27, 64>>,
           <<71>> \o Zeros(99) \o <<27, 64>> }
    \cup RasterLineFrames
    \cup { status_cmd, enablePackBits_cmd("printer"), sendPreCutCommand_cmd(1),
           chain_cmd("printer"), magic_cmd("printer"),
           sendInfoCommand_cmd("printer", FLAG_D460BT_MAGIC, 12, 60),
           rasterStart_cmd("printer", FLAG_NONE), rasterStart_cmd("printer", FLAG_P700_INIT) }

\* a caller classifies a buffer
identify_command ==
    /\ CallEntry
    /\ \E data \in Buffers :
          Returned([op |-> "ptouch_debug_identify_command", data |-> data,
                    cmd_type |-> ptouch_debug_identify_command(data)])
    /\ UNCHANGED <<debug_vars, mock_vars, task_vars, printer_fields>>

\* a caller asks for the description of a buffer
get_command_description ==
    /\ CallEntry
    /\ \E data \in Buffers :
          Returned([op |-> "ptouch_debug_get_command_description", data |-> data,
                    cmd_type |-> ptouch_debug_identify_command(data),
                    desc |-> ptouch_debug_get_command_description(data)])
    /\ UNCHANGED <<debug_vars, mock_vars, task_vars, printer_fields>>

\* the classifier applied to buffers, the component build
InitClassifier == Init /\ variant = "printer"

NextClassifier ==
    \/ identify_command
    \/ get_command_description
    \/ Resume

SpecClassifier == InitClassifier /\ [][NextClassifier]_vars

----------------------------------------------------------------------------
(* Packet statistics of ptouch_debug.c                                     *)

PTOUCH_DEBUG_MAX_PACKET_SIZE == 256

\* ptouch_debug_level_t values handed to the logger
DebugLevels == {"PTOUCH_DEBUG_LEVEL_NONE", "PTOUCH_DEBUG_LEVEL_INFO"}

\* ptouch_packet_dir_t
Directions == {"PTOUCH_PACKET_DIR_OUT", "PTOUCH_PACKET_DIR_IN"}

\* lengths of the packets handed to ptouch_debug_log_packet: none, a command,
\* a status frame, more than PTOUCH_DEBUG_MAX_PACKET_SIZE
PacketLengths == {0, 1, 32, 300}

\* usb_transfer_status_t: completed, error, timed out
TransferStatuses == {0, 1, 2}

\* ptouch_debug_stats_t after memset(0)
EmptyStats ==
    [total_packets |-> 0, packets_out |-> 0, packets_in |-> 0, errors |-> 0,
     timeouts |-> 0, protocol_errors |-> 0, bytes_sent |-> 0, bytes_received |-> 0,
     last_packet_time |-> 0, first_packet_time |-> 0]

\* PTOUCH_DEBUG_ENABLED()
PTOUCH_DEBUG_ENABLED ==
    g_ptouch_debug_logger.allocated /\ g_ptouch_debug_logger.enabled

\* esp_timer_get_time(): the values the clock may return next
ClockValues == esp_timer..MaxTime

\* ptouch_debug_log_packet adding packet_info.length, the length cut to
\* PTOUCH_DEBUG_MAX_PACKET_SIZE, to the byte counters
log_packet_stats_truncated(stats, direction, length, transfer_status, timestamp) ==
    LET cut == IF length > PTOUCH_DEBUG_MAX_PACKET_SIZE
               THEN PTOUCH_DEBUG_MAX_PACKET_SIZE ELSE length
        out == direction = "PTOUCH_PACKET_DIR_OUT"
    IN  [stats EXCEPT
            !.total_packets = @ + 1,
            !.last_packet_time = timestamp,
            !.packets_out = IF out THEN @ + 1 ELSE @,
            !.bytes_sent = IF out THEN @ + cut ELSE @,
            !.packets_in = IF out THEN @ ELSE @ + 1,
            !.bytes_received = IF out THEN @ ELSE @ + cut,
            !.errors = IF transfer_status # 0 THEN @ + 1 ELSE @]

\* ptouch_debug_log_packet leaving a failed transfer out of total_packets
log_packet_stats_errors_apart(stats, direction, length, transfer_status, timestamp) ==
    LET is_error == transfer_status # 0
        out == direction = "PTOUCH_PACKET_DIR_OUT"
    IN  [stats EXCEPT
            !.total_packets = IF is_error THEN @ ELSE @ + 1,
            !.last_packet_time = timestamp,
            !.packets_out = IF out THEN @ + 1 ELSE @,
            !.bytes_sent = IF out THEN @ + length ELSE @,
            !.packets_in = IF out THEN @ ELSE @ + 1,
            !.bytes_received = IF out THEN @ ELSE @ + length,
            !.errors = IF is_error THEN @ + 1 ELSE @]

\* ptouch_debug_log_packet: "Update statistics"
log_packet_stats(stats, direction, length, transfer_status, timestamp) ==
    LET is_error == transfer_status # 0
        out == direction = "PTOUCH_PACKET_DIR_OUT"
    IN  [stats EXCEPT
            !.total_packets = @ + 1,
            !.last_packet_time = timestamp,
            !.packets_out = IF out THEN @ + 1 ELSE @,
            !.bytes_sent = IF out THEN @ + length ELSE @,
            !.packets_in = IF out THEN @ ELSE @ + 1,
            !.bytes_received = IF out THEN @ ELSE @ + length,
            !.errors = IF is_error THEN @ + 1 ELSE @]

\* esp_err_t ptouch_debug_init(level)
ptouch_debug_init ==
    /\ CallEntry
    /\ \E level \in DebugLevels, allocOk \in BOOLEAN :
          IF g_ptouch_debug_logger.allocated
          THEN /\ Returned([op |-> "ptouch_debug_init", esp_err |-> "ESP_OK"])
               /\ UNCHANGED debug_vars
          ELSE IF ~allocOk
          THEN /\ Returned([op |-> "ptouch_debug_init", esp_err |-> "ESP_ERR_NO_MEM"])
               /\ UNCHANGED debug_vars
          ELSE \E t \in ClockValues :
                  /\ esp_timer' = t
                  /\ g_ptouch_debug_logger' =
                        [allocated |-> TRUE, enabled |-> TRUE, level |-> level,
                         stats |-> [EmptyStats EXCEPT !.first_packet_time = t]]
                  /\ Returned([op |-> "ptouch_debug_init", esp_err |-> "ESP_OK"])
    /\ UNCHANGED <<mock_vars, printer_fields>>

\* esp_err_t ptouch_debug_deinit(void)
ptouch_debug_deinit ==
    /\ CallEntry
    /\ g_ptouch_debug_logger' = NoLogger
    /\ Returned([op |-> "ptouch_debug_deinit", esp_err |-> "ESP_OK"])
    /\ UNCHANGED <<esp_timer, mock_vars, printer_fields>>

\* esp_err_t ptouch_debug_set_level(level)
ptouch_debug_set_level ==
    /\ CallEntry
    /\ \E level \in DebugLevels :
          IF ~g_ptouch_debug_logger.allocated
          THEN /\ Returned([op |-> "ptouch_debug_set_level",
                            esp_err |-> "ESP_ERR_INVALID_STATE"])
               /\ UNCHANGED g_ptouch_debug_logger
          ELSE /\ g_ptouch_debug_logger' = [g_ptouch_debug_logger EXCEPT !.level = level]
               /\ Returned([op |-> "ptouch_debug_set_level", esp_err |-> "ESP_OK"])
    /\ UNCHANGED <<esp_timer, mock_vars, printer_fields>>

\* esp_err_t ptouch_debug_log_packet(direction, endpoint, data, length,
\* transfer_status); data_null stands for data == NULL
ptouch_debug_log_packet ==
    /\ CallEntry
    /\ g_ptouch_debug_logger.allocated
       => g_ptouch_debug_logger.stats.total_packets < MaxPackets
    /\ \E direction \in Directions, length \in PacketLengths, data_null \in BOOLEAN,
          transfer_status \in TransferStatuses :
          LET rec(err, recorded) ==
                  [op |-> "ptouch_debug_log_packet", esp_err |-> err,
                   recorded |-> recorded, direction |-> direction,
                   length |-> length, transfer_status |-> transfer_status]
          IN  IF ~PTOUCH_DEBUG_ENABLED
              THEN Returned(rec("ESP_OK", FALSE)) /\ UNCHANGED debug_vars
              ELSE IF data_null \/ length = 0
              THEN Returned(rec("ESP_ERR_INVALID_ARG", FALSE)) /\ UNCHANGED debug_vars
              ELSE \E t \in ClockValues :
                      /\ esp_timer' = t
                      /\ g_ptouch_debug_logger' =
                            [g_ptouch_debug_logger EXCEPT
                                !.stats = log_packet_stats(@, direction, length,
                                                           transfer_status, t)]
                      /\ Returned(rec("ESP_OK", TRUE))
    /\ UNCHANGED <<mock_vars, printer_fields>>

\* void ptouch_debug_reset_stats(void)
ptouch_debug_reset_stats ==
    /\ CallEntry
    /\ IF ~g_ptouch_debug_logger.allocated
       THEN UNCHANGED debug_vars
       ELSE \E t \in ClockValues :
               /\ esp_timer' = t
               /\ g_ptouch_debug_logger' =
                     [g_ptouch_debug_logger EXCEPT
                         !.stats = [EmptyStats EXCEPT !.first_packet_time = t]]
    /\ Returned([op |-> "ptouch_debug_reset_stats"])
    /\ UNCHANGED <<mock_vars, printer_fields>>

\* the logger driven by its callers, the component build
InitLogger == Init /\ variant = "printer"

NextLogger ==
    \/ ptouch_debug_init
    \/ ptouch_debug_deinit
    \/ ptouch_debug_set_level
    \/ ptouch_debug_log_packet
    \/ ptouch_debug_reset_stats
    \/ Resume

SpecLogger == InitLogger /\ [][NextLogger]_vars

----------------------------------------------------------------------------
(* The mock USB host of the unit tests (test/mocks/mock_usb_host.h)        *)

ESP_OK == 0
ESP_FAIL == -1
ESP_ERR_INVALID_ARG == 258
ESP_ERR_TIMEOUT == 259
ESP_ERR_NOT_FOUND == 261

\* bulk transfers a test makes on one mock
MaxTransfers == 2

\* entries a test puts into the error queue
MaxQueued == 2

\* the frames the tests send (test_data.h: INIT_COMMAND, STATUS_REQUEST), the
\* response they queue (queue_ack_response) and the endpoints they use
TestFrames == { <<27, 64>>, status_cmd }
TestResponses == { <<6>> }
Endpoints == { 2, 129 }
InjectedErrors == { ESP_OK, ESP_FAIL, ESP_ERR_TIMEOUT }

Min(a, b) == IF a < b THEN a ELSE b

\* USBTransferRecord(ep, buf, len, timeout): data(buf, buf + len)
USBTransferRecord(ep, buf, len) ==
    [endpoint |-> ep, data |-> SubSeq(buf, 1, len), length |-> len,
     result |-> ESP_OK, actual_length |-> len]

\* what a method reads through the handle it is given: nothing behind
\* nullptr, the fields of the device, or, for a handle whose device the map
\* has destroyed (uninstall_host_driver, reset), any values
HandleViews(h) ==
    IF h = NULL
    THEN { [is_open |-> FALSE, interface_claimed |-> FALSE] }
    ELSE IF h \in DOMAIN usb.mock_devices
    THEN { [is_open |-> usb.mock_devices[h].is_open,
            interface_claimed |-> usb.mock_devices[h].interface_claimed] }
    ELSE [is_open : BOOLEAN, interface_claimed : BOOLEAN]

\* a method writes the fields of the device behind a live handle
WriteDevice(h, is_open, interface_claimed) ==
    IF h # NULL /\ h \in DOMAIN usb.mock_devices
    THEN [usb EXCEPT !.mock_devices[h].is_open = is_open,
                     !.mock_devices[h].interface_claimed = interface_claimed]
    ELSE usb

\* bulk_transfer leaving an injected error at the head of the queue
bulk_transfer_result_peek(view, endpoint, data, length) ==
    IF ~view.is_open \/ ~view.interface_claimed
    THEN [usb |-> usb, ret |-> ESP_ERR_INVALID_ARG, actual_length |-> 0]
    ELSE
    LET counted == [usb EXCEPT !.total_transfers = @ + 1]
        q == usb.next_transfer_errors
    IN  IF q # << >> /\ Head(q) # ESP_OK
        THEN [usb |-> [counted EXCEPT !.failed_transfers = @ + 1],
              ret |-> Head(q), actual_length |-> 0]
        ELSE
        LET popped == [counted EXCEPT !.next_transfer_errors =
                                          IF q = << >> THEN q ELSE Tail(q)]
        IN  IF endpoint >= 128
            THEN IF popped.bulk_in_responses = << >>
                 THEN [usb |-> popped, ret |-> ESP_ERR_TIMEOUT, actual_length |-> 0]
                 ELSE LET response == Head(popped.bulk_in_responses)
                          copy_length == Min(length, Len(response))
                      IN  [usb |-> [popped EXCEPT
                                      !.bulk_in_responses = Tail(@),
                                      !.received_transfers =
                                          Append(@, USBTransferRecord(endpoint, response,
                                                                      copy_length))],
                           ret |-> ESP_OK, actual_length |-> copy_length]
            ELSE [usb |-> [popped EXCEPT !.sent_transfers =
                              Append(@, USBTransferRecord(endpoint, data, length))],
                  ret |-> ESP_OK, actual_length |-> length]

\* bulk_transfer recording an OUT transfer without its last byte
bulk_transfer_result_short(view, endpoint, data, length) ==
    IF ~view.is_open \/ ~view.interface_claimed
    THEN [usb |-> usb, ret |-> ESP_ERR_INVALID_ARG, actual_length |-> 0]
    ELSE
    LET counted == [usb EXCEPT !.total_transfers = @ + 1]
        q == usb.next_transfer_errors
    IN  IF q # << >> /\ Head(q) # ESP_OK
        THEN [usb |-> [counted EXCEPT !.next_transfer_errors = Tail(q),
                                      !.failed_transfers = @ + 1],
              ret |-> Head(q), actual_length |-> 0]
        ELSE
        LET popped == [counted EXCEPT !.next_transfer_errors =
                                          IF q = << >> THEN q ELSE Tail(q)]
        IN  IF endpoint >= 128
            THEN IF popped.bulk_in_responses = << >>
                 THEN [usb |-> popped, ret |-> ESP_ERR_TIMEOUT, actual_length |-> 0]
                 ELSE LET response == Head(popped.bulk_in_responses)
                          copy_length == Min(length, Len(response))
                      IN  [usb |-> [popped EXCEPT
                                      !.bulk_in_responses = Tail(@),
                                      !.received_transfers =
                                          Append(@, USBTransferRecord(endpoint, response,
                                                                      copy_length))],
                           ret |-> ESP_OK, actual_length |-> copy_length]
            ELSE [usb |-> [popped EXCEPT !.sent_transfers =
                              Append(@, USBTransferRecord(endpoint, data, length - 1))],
                  ret |-> ESP_OK, actual_length |-> length]

\* MockUSBHost::bulk_transfer(device_handle, endpoint, data, length,
\* actual_length, timeout_ms): the mock after the call, the result, and
\* actual_length (which the tests set to 0 before the call)
bulk_transfer_result(view, endpoint, data, length) ==
    IF ~view.is_open \/ ~view.interface_claimed
    THEN [usb |-> usb, ret |-> ESP_ERR_INVALID_ARG, actual_length |-> 0]
    ELSE
    LET counted == [usb EXCEPT !.total_transfers = @ + 1]
        q == usb.next_transfer_errors
    IN  IF q # << >> /\ Head(q) # ESP_OK
        THEN [usb |-> [counted EXCEPT !.next_transfer_errors = Tail(q),
                                      !.failed_transfers = @ + 1],
              ret |-> Head(q), actual_length |-> 0]
        ELSE
        LET popped == [counted EXCEPT !.next_transfer_errors =
                                          IF q = << >> THEN q ELSE Tail(q)]
        IN  IF endpoint >= 128
            THEN IF popped.bulk_in_responses = << >>
                 THEN [usb |-> popped, ret |-> ESP_ERR_TIMEOUT, actual_length |-> 0]
                 ELSE LET response == Head(popped.bulk_in_responses)
                          copy_length == Min(length, Len(response))
                      IN  [usb |-> [popped EXCEPT
                                      !.bulk_in_responses = Tail(@),
                                      !.received_transfers =
                                          Append(@, USBTransferRecord(endpoint, response,
                                                                      copy_length))],
                           ret |-> ESP_OK, actual_length |-> copy_length]
            ELSE [usb |-> [popped EXCEPT !.sent_transfers =
                              Append(@, USBTransferRecord(endpoint, data, length))],
                  ret |-> ESP_OK, actual_length |-> length]

\* a call of the test that leaves its handle and its record of sent frames alone
Called(op, ret) ==
    test' = [test EXCEPT !.last = TestCall(op, ret, 0, 0, << >>)]

\* the engine, which the unit tests of the mock do not run
MockFrame == UNCHANGED <<debug_vars, pc, lastCall, printer_fields>>

install_host_driver ==
    /\ IF usb.fail_next_operation
       THEN /\ usb' = [usb EXCEPT !.fail_next_operation = FALSE]
            /\ Called("install_host_driver", usb.next_operation_error)
       ELSE IF usb.host_driver_installed
       THEN /\ UNCHANGED usb
            /\ Called("install_host_driver", ESP_ERR_INVALID_ARG)
       ELSE /\ usb' = [usb EXCEPT !.host_driver_installed = TRUE]
            /\ Called("install_host_driver", ESP_OK)
    /\ MockFrame

uninstall_host_driver ==
    /\ IF ~usb.host_driver_installed
       THEN /\ UNCHANGED usb
            /\ Called("uninstall_host_driver", ESP_ERR_INVALID_ARG)
       ELSE /\ usb' = [usb EXCEPT !.mock_devices = << >>,
                                  !.host_driver_installed = FALSE,
                                  !.client_registered = FALSE]
            /\ Called("uninstall_host_driver", ESP_OK)
    /\ MockFrame

\* register_client accepting a second client and a missing driver
register_client_unguarded ==
    /\ usb' = [usb EXCEPT !.client_registered = TRUE]
    /\ Called("register_client", ESP_OK)
    /\ MockFrame

register_client ==
    /\ IF ~usb.host_driver_installed \/ usb.client_registered
       THEN /\ UNCHANGED usb
            /\ Called("register_client", ESP_ERR_INVALID_ARG)
       ELSE /\ usb' = [usb EXCEPT !.client_registered = TRUE]
            /\ Called("register_client", ESP_OK)
    /\ MockFrame

deregister_client ==
    /\ IF ~usb.client_registered
       THEN /\ UNCHANGED usb
            /\ Called("deregister_client", ESP_ERR_INVALID_ARG)
       ELSE /\ usb' = [usb EXCEPT !.client_registered = FALSE]
            /\ Called("deregister_client", ESP_OK)
    /\ MockFrame

\* add_ptouch_printer(pid): add_mock_device(0x04F9, pid); the tests plug in
\* one printer per mock, after they have registered their client
add_ptouch_printer ==
    /\ usb.client_registered
    /\ usb.next_device_address = 1
    /\ usb' = [usb EXCEPT
                 !.next_device_address = @ + 1,
                 !.mock_devices = [a \in {usb.next_device_address} |->
                                     [device_address |-> a, vid |-> PTOUCH_VID, pid |-> 8289,
                                      is_open |-> FALSE, interface_claimed |-> FALSE]]]
    /\ Called("add_ptouch_printer", usb.next_device_address)
    /\ MockFrame

\* device_open(device_addr, &device_handle) with the address add_ptouch_printer
\* returned
device_open ==
    /\ LET addr == 1
       IN  IF ~usb.client_registered
           THEN UNCHANGED usb /\ Called("device_open", ESP_ERR_INVALID_ARG)
           ELSE IF addr \notin DOMAIN usb.mock_devices
           THEN UNCHANGED usb /\ Called("device_open", ESP_ERR_NOT_FOUND)
           ELSE IF usb.mock_devices[addr].is_open
           THEN UNCHANGED usb /\ Called("device_open", ESP_ERR_INVALID_ARG)
           ELSE /\ usb' = [usb EXCEPT !.mock_devices[addr].is_open = TRUE]
                /\ test' = [test EXCEPT !.handle = addr,
                                        !.last = TestCall("device_open", ESP_OK, 0, 0, << >>)]
    /\ MockFrame

device_close ==
    /\ \E view \in HandleViews(test.handle) :
          IF ~view.is_open
          THEN UNCHANGED usb /\ Called("device_close", ESP_ERR_INVALID_ARG)
          ELSE /\ usb' = WriteDevice(test.handle, FALSE, FALSE)
               /\ Called("device_close", ESP_OK)
    /\ MockFrame

claim_interface ==
    /\ \E view \in HandleViews(test.handle) :
          IF ~view.is_open \/ view.interface_claimed
          THEN UNCHANGED usb /\ Called("claim_interface", ESP_ERR_INVALID_ARG)
          ELSE /\ usb' = WriteDevice(test.handle, TRUE, TRUE)
               /\ Called("claim_interface", ESP_OK)
    /\ MockFrame

release_interface ==
    /\ \E view \in HandleViews(test.handle) :
          IF ~view.is_open
          THEN UNCHANGED usb /\ Called("release_interface", ESP_ERR_INVALID_ARG)
          ELSE /\ usb' = WriteDevice(test.handle, TRUE, FALSE)
               /\ Called("release_interface", ESP_OK)
    /\ MockFrame

\* bulk_transfer(handle, endpoint, data, data.size(), actual_length, 1000);
\* an IN transfer asks for 32 bytes and passes no data
bulk_transfer ==
    /\ usb.total_transfers < MaxTransfers
    /\ \E view \in HandleViews(test.handle), endpoint \in Endpoints :
       \E data \in IF endpoint >= 128 THEN { << >> } ELSE TestFrames :
          LET length == IF endpoint >= 128 THEN 32 ELSE Len(data)
              r == bulk_transfer_result(view, endpoint, data, length)
          IN  /\ usb' = r.usb
              /\ test' = [test EXCEPT
                            !.last = TestCall("bulk_transfer", r.ret, r.actual_length,
                                              endpoint, data),
                            !.acked = IF r.ret = ESP_OK /\ endpoint < 128
                                      THEN Append(@, data) ELSE @]
    /\ MockFrame

\* the tests queue responses and errors once they have claimed the interface,
\* one response at a time
queue_bulk_in_response ==
    /\ test.handle # NULL /\ test.handle \in DOMAIN usb.mock_devices
    /\ usb.mock_devices[test.handle].interface_claimed
    /\ usb.bulk_in_responses = << >>
    /\ \E response \in TestResponses :
          usb' = [usb EXCEPT !.bulk_in_responses = Append(@, response)]
    /\ Called("queue_bulk_in_response", ESP_OK)
    /\ MockFrame

set_next_transfer_error ==
    /\ test.handle # NULL /\ test.handle \in DOMAIN usb.mock_devices
    /\ usb.mock_devices[test.handle].interface_claimed
    /\ Len(usb.next_transfer_errors) < MaxQueued
    /\ \E error \in InjectedErrors :
          /\ usb' = [usb EXCEPT !.next_transfer_errors = Append(@, error)]
          /\ Called("set_next_transfer_error", error)
    /\ MockFrame

\* the tests inject an operation failure ahead of install_host_driver
set_next_operation_failure ==
    /\ ~usb.host_driver_installed
    /\ \E error \in { ESP_FAIL } :
          /\ usb' = [usb EXCEPT !.fail_next_operation = TRUE,
                                !.next_operation_error = error]
          /\ Called("set_next_operation_failure", error)
    /\ MockFrame

clear_transfer_history ==
    /\ usb' = [usb EXCEPT !.sent_transfers = << >>, !.received_transfers = << >>]
    /\ test' = [test EXCEPT !.acked = << >>,
                            !.last = TestCall("clear_transfer_history", ESP_OK, 0, 0, << >>)]
    /\ MockFrame

\* reset(), after which a test goes on with the mock (and with its handle)
reset ==
    /\ usb' = MockUSBHost
    /\ test' = [test EXCEPT !.acked = << >>,
                            !.last = TestCall("reset", ESP_OK, 0, 0, << >>)]
    /\ MockFrame

InitMock == Init /\ variant = "printer"

NextMock ==
    \/ install_host_driver
    \/ uninstall_host_driver
    \/ register_client
    \/ deregister_client
    \/ add_ptouch_printer
    \/ device_open
    \/ device_close
    \/ claim_interface
    \/ release_interface
    \/ bulk_transfer
    \/ queue_bulk_in_response
    \/ set_next_transfer_error
    \/ set_next_operation_failure
    \/ clear_transfer_history
    \/ reset

SpecMock == InitMock /\ [][NextMock]_vars

----------------------------------------------------------------------------
(* Properties                                                              *)

\* printBitmap has returned and its caller has not resumed yet
PrintReturned == pc = "returned" /\ lastCall.op = "printBitmap"

\* a printBitmap call is running or has just returned
InJob == pc \notin {"idle", "returned"} \/ PrintReturned

\* the call named op has returned and its caller has not resumed yet
CallReturned(op) == pc = "returned" /\ lastCall.op = op

\* all frames of connect followed by the job, in the order handed over
JobFrames == initlog \o sent

IsStatusRequest(frame) == frame = status_cmd
NotStatusRequest(frame) == frame # status_cmd

HasPrefix(frame, prefix) ==
    Len(frame) >= Len(prefix) /\ SubSeq(frame, 1, Len(prefix)) = prefix

\* the step of the documented job order that a frame belongs to
StepRank(frame) ==
    CASE frame = <<27, 64>>                                   -> 1
      [] frame = Zeros(100) \o <<27, 64>>                      -> 2
      [] frame = status_cmd                                    -> 3
      [] frame \in {<<27, 105, 75, 0>>, <<27, 105, 100, 14, 0, 77, 0>>} -> 4
      [] frame = <<77, 2>>                                     -> 5
      [] HasPrefix(frame, <<27, 105, 122>>)                    -> 6
      [] frame \in {<<27, 105, 97, 1>>, <<27, 105, 82, 1>>}    -> 7
      [] HasPrefix(frame, <<27, 105, 77>>)                     -> 8
      [] HasPrefix(frame, <<71>>)                              -> 9
      [] frame \in {<<26>>, <<12>>}                            -> 10
      [] OTHER                                                 -> 11

\* C1: in every successful print job of the component builds (all raster
\* lines sent, no frame answered with an error), the frames of connect and
\* printBitmap reach the transport in the documented order (P700 init,
\* invalidate, status request, chain/magic, PackBits enable, info, raster
\* start, pre-cut, raster lines, finalize): no frame of a later step precedes
\* a frame of an earlier step.
C1_FixedOrder ==
    (/\ variant \in {"printer", "printing"}
     /\ PrintReturned /\ lastCall.ret /\ ~job.err
     /\ NumLines > 0 /\ job.n = NumLines)
    => \A i \in 1..(Len(JobFrames) - 1) :
          StepRank(JobFrames[i]) <= StepRank(JobFrames[i + 1])

\* C2: in printBitmap of ptouch_printer.cpp, once the transport has answered a
\* frame of the job with an error, the job is at its return with result false;
\* no job step, hence no further frame, follows.
C2_AbortOnTransportError ==
    (variant = "printer" /\ job.err)
    => (pc = "returned" /\ lastCall.op = "printBitmap" /\ ~lastCall.ret)

\* C2 witness: a raster line in the middle of the image was answered with an
\* error after earlier lines went through.
C2_Witness ==
    /\ variant = "printer"
    /\ PrintReturned
    /\ job.err
    /\ job.n >= 1
    /\ job.n < NumLines
    /\ Len(sent) >= 4

\* C3: a print job whose image is higher than the current tape width returns
\* failure and has handed no frame of the job to the transport (the status
\* request that acquires the tape width is not counted against it).
C3_TooTallRejectedBeforeAnyByte ==
    (PrintReturned /\ ~Img.null /\ Img.height > tape_width_px)
    => (~lastCall.ret /\ \A i \in 1..Len(sent) : IsStatusRequest(sent[i]))

\* C4: when the status acquired by a print job reports a nonzero error code,
\* the job returns failure and no frame beyond the status request is sent.
C4_ErrorStatusRejectsJob ==
    (InJob /\ stat_error(status) # 0)
    => /\ \A i \in 1..Len(sent) : IsStatusRequest(sent[i])
       /\ ~lastCall.ret

\* the frames C5 lists for the PT-D460BT scenario, after the status request is
\* left out
C5_Listed(f) ==
    /\ Len(f) = 136
    /\ f[1] = <<27, 64>>
    /\ f[2] = Zeros(100) \o <<27, 64>>
    /\ f[3] = <<27, 105, 75, 0>>
    /\ f[4] = <<27, 105, 100, 14, 0, 77, 0>>
    /\ HasPrefix(f[5], <<27, 105, 122>>)
    /\ SubSeq(f[5], 8, 11) = <<60, 0, 0, 0>>
    /\ f[6] = <<27, 105, 97, 1>>
    /\ f[7] = <<27, 105, 77, 64>>
    /\ \A k \in 8..135 : HasPrefix(f[k], <<71>>)
    /\ f[136] = <<26>>

\* C5: on a PT-D460BT with 12 mm tape (76 px), a successful print of the
\* 128 x 60 image hands over, in order: init, the 102-byte invalidate, chain,
\* magic, info with sizeX = 60, raster start 1B 69 61 01, pre-cut 1B 69 4D 40,
\* exactly 128 raster lines and finalize 1A.
C5_D460BTScenarioFrames ==
    (/\ PrintReturned /\ lastCall.ret /\ ~job.chain
     /\ device_info # NULL /\ Info.name = "PT-D460BT"
     /\ Img.width = 128 /\ Img.height = 60
     /\ stat_media_width(status) = 12 /\ tape_width_px = 76)
    => C5_Listed(SelectSeq(JobFrames, NotStatusRequest))

\* C6: when the detectPrinter call right before a connect turned a device down
\* (PLite, unsupported raster, product id not in the catalog), the connect
\* fails and sends nothing.
C6_RejectedDeviceNotConnected ==
    (CallReturned("connect") /\ lastDetect = "rejected")
    => (~lastCall.ret /\ sent = << >>)

\* C7: getStatus returns true exactly when 32 bytes were received; otherwise
\* the stored status bytes and the tape width are what they were before.
C7_StatusOnly32Bytes ==
    CallReturned("getStatus")
    => /\ lastCall.ret <=> (lastCall.received = 32)
       /\ lastCall.received # 32
            => (status = lastCall.pre_status /\ tape_width_px = lastCall.pre_tape)

\* C7 witness: a 31-byte response arrives after an earlier poll has stored a
\* status, and the poll fails.
C7_Witness ==
    /\ CallReturned("getStatus")
    /\ lastCall.received = 31
    /\ ~lastCall.ret
    /\ lastCall.pre_status # Zeros(32)
    /\ lastCall.pre_tape # 0

\* printAreaPx of the tape-table entry for a media width, 0 when there is none
TapeTablePx(mw) ==
    IF \E i \in 1..Len(tape_info) : tape_info[i].mm = mw
    THEN tape_info[CHOOSE i \in 1..Len(tape_info) : tape_info[i].mm = mw].px
    ELSE 0

\* C8: after a successful status poll the tape width in pixels is the table
\* entry for the media width of that frame, and 0 when no entry matches.
C8_TapeWidthFollowsLatestFrame ==
    (CallReturned("getStatus") /\ lastCall.ret)
    => tape_width_px = TapeTablePx(stat_media_width(status))

\* C9: sendRasterLine with a line longer than max_px / 8 bytes fails and hands
\* nothing to the transport.
C9_LongLineRejected ==
    (CallReturned("sendRasterLine") /\ lastCall.len > Info.max_px \div 8)
    => (~lastCall.ret /\ sent = << >>)

\* C10: an accepted raster line of len bytes is framed as 47, len+1, 00, len-1,
\* payload on a RasterPackBits profile and as 47, len, 00, payload otherwise.
C10_RasterLineFrame ==
    (/\ CallReturned("sendRasterLine")
     /\ lastCall.len >= 1 /\ lastCall.len <= Info.max_px \div 8
     /\ sent # << >>)
    => sent[1] = (IF HasFlag(Flags, FLAG_RASTER_PACKBITS)
                  THEN <<71, lastCall.len + 1, 0, lastCall.len - 1>> \o lastCall.data
                  ELSE <<71, lastCall.len, 0>> \o lastCall.data)

\* the frame finalize is documented to send
FinalizeCode(flags, chain) ==
    IF chain /\ ~HasFlag(flags, FLAG_D460BT_MAGIC) THEN <<12>> ELSE <<26>>

\* C11: while finalizePrint runs (components build, either printBitmap), the
\* only frame it hands to the transport is one single byte: 0C when chain is
\* set and the profile lacks D460btMagic, 1A otherwise; no other frame follows.
C11_FinalizeSingleFrame ==
    [][(variant \in {"printer", "printing"} /\ pc \in {"finalize", "formfeed"})
       => \/ sent' = sent
          \/ /\ pc = "finalize"
             /\ sent' = Append(sent, FinalizeCode(Flags, job.chain))]_vars

\* the initialisation frames as documented: an optional 1B 40, then the
\* invalidate frame of 100 zero bytes followed by 1B 40
InitFramesDocumented(flags) ==
    (IF HasFlag(flags, FLAG_P700_INIT) THEN << <<27, 64>> >> ELSE << >>)
    \o << Zeros(100) \o <<27, 64>> >>

\* C12: a connect whose initialisation succeeded has sent the invalidate frame
\* as one 102-byte frame, preceded by a separate 1B 40 exactly when the profile
\* has P700Init, and nothing else.
C12_InitFrames ==
    (CallReturned("connect") /\ lastCall.ret)
    => sent = InitFramesDocumented(Flags)

\* the sizeX argument printBitmap hands to sendInfoCommand
InfoSizeX == IF variant = "printer" THEN Img.height ELSE Img.width

\* the info command as documented
InfoDocumented(flags, media_width, size_x) ==
    <<27, 105, 122, 0, 0, media_width, 0,
      size_x % 256, (size_x \div 256) % 256,
      (size_x \div 65536) % 256, (size_x \div 16777216) % 256,
      IF HasFlag(flags, FLAG_D460BT_MAGIC) THEN 2 ELSE 0>>

\* C13: the frame sent by sendInfoCommand(sizeX) is the 12 bytes
\* 1B 69 7A 00 00 mediaWidthMm 00 sizeX (little endian) and 02 or 00.
C13_InfoCommandBytes ==
    InJob => \A i \in 1..Len(sent) :
                HasPrefix(sent[i], <<27, 105, 122>>)
                => sent[i] = InfoDocumented(Flags, stat_media_width(status), InfoSizeX)

IsChainOrMagic(frame) ==
    frame \in {<<27, 105, 75, 0>>, <<27, 105, 100, 14, 0, 77, 0>>}

\* C14: in a print job of ptouch_printer.cpp the frame 4D 02 is sent only to
\* a RasterPackBits profile, the info command only to a UseInfoCommand
\* profile, and the D460BT chain and magic frames only to a D460btMagic profile.
C14_FlaggedFramesOnly ==
    (variant = "printer" /\ InJob)
    => \A i \in 1..Len(sent) :
          /\ sent[i] = <<77, 2>> => HasFlag(Flags, FLAG_RASTER_PACKBITS)
          /\ HasPrefix(sent[i], <<27, 105, 122>>) => HasFlag(Flags, FLAG_USE_INFO_CMD)
          /\ IsChainOrMagic(sent[i]) => HasFlag(Flags, FLAG_D460BT_MAGIC)

\* C14 witness: a job on a profile with UseInfoCommand only has succeeded; it
\* sent the info command and lines
C14_Witness ==
    /\ variant = "printer" /\ PrintReturned /\ lastCall.ret
    /\ HasFlag(Flags, FLAG_USE_INFO_CMD)
    /\ ~HasFlag(Flags, FLAG_RASTER_PACKBITS) /\ ~HasFlag(Flags, FLAG_D460BT_MAGIC)
    /\ \E i \in 1..Len(sent) : HasPrefix(sent[i], <<27, 105, 122>>)
    /\ \E i \in 1..Len(sent) : HasPrefix(sent[i], <<71>>)

IsPreCut(frame) == frame = <<27, 105, 77, 64>>
IsRasterStart(frame) == frame \in {<<27, 105, 97, 1>>, <<27, 105, 82, 1>>}
IsRasterLine(frame) == HasPrefix(frame, <<71>>)

\* C15: a successful print job of the component (either printBitmap) has sent
\* the pre-cut frame 1B 69 4D 40 exactly once, after raster start and before
\* the first raster line, if the profile has HasPrecut, and not at all otherwise.
C15_PreCutOnce ==
    (variant \in {"printer", "printing"} /\ PrintReturned /\ lastCall.ret /\ ~job.err)
    => LET cuts == {i \in 1..Len(sent) : IsPreCut(sent[i])}
       IN  IF HasFlag(Flags, FLAG_HAS_PRECUT)
           THEN /\ Cardinality(cuts) = 1
                /\ \A i \in cuts :
                      /\ \E j \in 1..(i - 1) : IsRasterStart(sent[j])
                      /\ \A j \in 1..(i - 1) : ~IsRasterLine(sent[j])
           ELSE cuts = {}

\* a classification has returned: its buffer and its result
Classified == CallReturned("ptouch_debug_identify_command")

\* the 102-byte invalidate frame
InvalidateFrame == Zeros(100) \o <<27, 64>>

\* C16: the invalidate frame of 102 bytes (100 zero bytes, 1B 40) classifies as
\* Init, and no other buffer is classified as Init by the long-sequence rule
\* (a buffer starting 1B 40 is Init by the bare-Init rule).
C16_LongInitExact ==
    Classified
    => /\ lastCall.data = InvalidateFrame => lastCall.cmd_type = "PTOUCH_CMD_INIT"
       /\ (lastCall.cmd_type = "PTOUCH_CMD_INIT" /\ ~HasPrefix(lastCall.data, <<27, 64>>))
          => lastCall.data = InvalidateFrame

\* C17: a single-byte buffer classifies as Finalize for 1A, CutPaper for 0C,
\* FeedPaper for 5A and Unknown for every other byte.
C17_SingleByte ==
    (Classified /\ Len(lastCall.data) = 1)
    => lastCall.cmd_type =
          (CASE lastCall.data[1] = 26 -> "PTOUCH_CMD_FINALIZE"
             [] lastCall.data[1] = 12 -> "PTOUCH_CMD_CUT_PAPER"
             [] lastCall.data[1] = 90 -> "PTOUCH_CMD_FEED_PAPER"
             [] OTHER -> "PTOUCH_CMD_UNKNOWN")

\* the documented rules for a buffer that is not the invalidate frame, first
\* match first: ESC i <code> through the code table, 1B 40, 4D 02, leading 47;
\* "none" when none of them matches
PrefixRuleDocumented(data) ==
    LET table == [c \in {83, 122, 82, 97, 77, 75, 100} |->
                     CASE c = 83  -> "PTOUCH_CMD_STATUS_REQUEST"
                       [] c = 122 -> "PTOUCH_CMD_INFO"
                       [] c = 77  -> "PTOUCH_CMD_PRECUT"
                       [] c = 75  -> "PTOUCH_CMD_D460BT_CHAIN"
                       [] c = 100 -> "PTOUCH_CMD_D460BT_MAGIC"
                       [] OTHER   -> "PTOUCH_CMD_RASTER_START"]
    IN  IF HasPrefix(data, <<27, 105>>) /\ Len(data) >= 3 /\ data[3] \in DOMAIN table
        THEN table[data[3]]
        ELSE IF HasPrefix(data, <<27, 64>>) THEN "PTOUCH_CMD_INIT"
        ELSE IF HasPrefix(data, <<77, 2>>) THEN "PTOUCH_CMD_PACKBITS_ENABLE"
        ELSE IF HasPrefix(data, <<71>>) THEN "PTOUCH_CMD_RASTER_LINE"
        ELSE "none"

\* C18: a buffer other than the invalidate frame that matches one of the prefix
\* rules (ESC i <code>, 1B 40, 4D 02, leading 47) gets the result of the first
\* rule that matches, whatever bytes follow.
C18_PrefixRulesInOrder ==
    (/\ Classified
     /\ lastCall.data # InvalidateFrame
     /\ PrefixRuleDocumented(lastCall.data) # "none")
    => lastCall.cmd_type = PrefixRuleDocumented(lastCall.data)

\* the number a reader takes from the digits of a description
RECURSIVE ParseDecimal(_)
ParseDecimal(digits) ==
    IF digits = << >> THEN 0
    ELSE 10 * ParseDecimal(SubSeq(digits, 1, Len(digits) - 1)) + digits[Len(digits)]

\* C19: for a profile without RasterPackBits and a line of L >= 1 bytes that
\* sendRasterLine accepts, the emitted frame classifies as RasterLine and its
\* description is "Raster line (N bytes)" with N = L.
C19_RasterLineRoundTrip ==
    CallReturned("ptouch_debug_get_command_description")
    => \A d \in 1..Len(supported_devices), len \in LineLengths :
          (/\ len >= 1
           /\ ~HasFlag(supported_devices[d].flags, FLAG_RASTER_PACKBITS)
           /\ ~RasterLineTooLong("printer", supported_devices[d].max_px, len)
           /\ lastCall.data = sendRasterLine_cmd("printer", supported_devices[d].flags,
                                                 LinePayload(len)))
          => /\ lastCall.cmd_type = "PTOUCH_CMD_RASTER_LINE"
             /\ lastCall.desc.head = "Raster line ("
             /\ ParseDecimal(lastCall.desc.digits) = len

\* the counters of ptouch_debug_stats_t
Counters == {"total_packets", "packets_out", "packets_in", "errors", "timeouts",
             "protocol_errors", "bytes_sent", "bytes_received"}

\* the step records a packet
RecordsPacket ==
    lastCall'.op = "ptouch_debug_log_packet" /\ lastCall'.recorded

\* C20: a step of ptouch_debug_log_packet that records a packet adds 1 to
\* total_packets, 1 to packets_out or packets_in by direction, the length to
\* bytes_sent or bytes_received, 1 to errors exactly when the transfer status
\* is not 0, sets last_packet_time to the clock and leaves the rest alone; and
\* while the logger exists no step but ptouch_debug_reset_stats lowers a counter.
C20_RecordedPacketCounters ==
    [][LET old == g_ptouch_debug_logger.stats
           new == g_ptouch_debug_logger'.stats
           out == lastCall'.direction = "PTOUCH_PACKET_DIR_OUT"
       IN  /\ RecordsPacket
              => /\ new.total_packets = old.total_packets + 1
                 /\ new.packets_out = old.packets_out + (IF out THEN 1 ELSE 0)
                 /\ new.packets_in = old.packets_in + (IF out THEN 0 ELSE 1)
                 /\ new.bytes_sent = old.bytes_sent + (IF out THEN lastCall'.length ELSE 0)
                 /\ new.bytes_received
                       = old.bytes_received + (IF out THEN 0 ELSE lastCall'.length)
                 /\ new.errors
                       = old.errors + (IF lastCall'.transfer_status # 0 THEN 1 ELSE 0)
                 /\ new.last_packet_time = esp_timer'
                 /\ new.timeouts = old.timeouts
                 /\ new.protocol_errors = old.protocol_errors
                 /\ new.first_packet_time = old.first_packet_time
           /\ (/\ g_ptouch_debug_logger.allocated /\ g_ptouch_debug_logger'.allocated
               /\ lastCall'.op # "ptouch_debug_reset_stats")
              => \A c \in Counters : new[c] >= old[c]]_vars

\* C20 witness: a packet longer than PTOUCH_DEBUG_MAX_PACKET_SIZE has just been
\* recorded as received with a failed transfer, after an earlier sent packet
C20_Witness ==
    /\ CallReturned("ptouch_debug_log_packet") /\ lastCall.recorded
    /\ lastCall.direction = "PTOUCH_PACKET_DIR_IN"
    /\ lastCall.transfer_status # 0
    /\ lastCall.length > PTOUCH_DEBUG_MAX_PACKET_SIZE
    /\ g_ptouch_debug_logger.stats.packets_out >= 1
    /\ g_ptouch_debug_logger.stats.errors = 1
    /\ g_ptouch_debug_logger.stats.last_packet_time > 0

\* the documented description of a nonzero error code, from its low byte
ErrorNameDocumented(low) ==
    CASE low = 1   -> "No media"
      [] low = 2   -> "End of media"
      [] low = 4   -> "Cutter jam"
      [] low = 8   -> "Weak batteries"
      [] low = 16  -> "High voltage adapter"
      [] low = 64  -> "Replace media"
      [] low = 128 -> "Expansion buffer full"
      [] OTHER     -> "Unknown error"

\* C21: for a nonzero error code getErrorDescription returns the name that
\* belongs to the low byte of the code when that byte is exactly 01, 02, 04,
\* 08, 10, 40 or 80, and "Unknown error" for every other low byte.
C21_ErrorDescriptionLowByte ==
    (CallReturned("getErrorDescription") /\ lastCall.stat.error # 0)
    => lastCall.ret = ErrorNameDocumented(lastCall.stat.error % 256)

\* C25: after a successful poll that received the 32 bytes b, the fields of
\* the status record are the bytes of b at the documented offsets (two- and
\* four-byte fields least-significant byte first), and hasError is true
\* exactly when b[8] or b[9] is not zero (offsets counted from 0).
C25_StatusDecoding ==
    (CallReturned("getStatus") /\ lastCall.ret)
    => LET b == lastCall.rx
           s == ptouch_stat(status)
       IN  /\ s.model = b[5] /\ s.country = b[6]
           /\ s.error = b[9] + 256 * b[10]
           /\ s.media_width = b[11] /\ s.media_type = b[12]
           /\ s.phase_type = b[20]
           /\ s.phase_number = b[21] + 256 * b[22]
           /\ s.tape_color = b[25] /\ s.text_color = b[26]
           /\ s.hw_setting = b[27] + 256 * b[28] + 65536 * b[29] + 16777216 * b[30]
           /\ hasError <=> (b[9] # 0 \/ b[10] # 0)

\* C25 witness: a poll has stored a frame whose bytes all differ and whose
\* error field has only its high byte set
C25_Witness ==
    /\ CallReturned("getStatus") /\ lastCall.ret
    /\ lastCall.rx = ProbeFrame(0, 1, 12)
    /\ status = lastCall.rx
    /\ hasError

\* the raster line frames of the running job, in the order sent
RasterLinesSent == SelectSeq(sent, IsRasterLine)

\* the payload of a raster line frame of the component build
PayloadOf(frame) ==
    IF HasFlag(Flags, FLAG_RASTER_PACKBITS)
    THEN SubSeq(frame, 5, Len(frame))
    ELSE SubSeq(frame, 4, Len(frame))

\* the centering offset of an image on a head of max_px pins
CenterOffset(img, max_px) == (max_px \div 2) - (img.height \div 2)

\* pin p of column x is documented to be set
PinDocumented(img, x, max_px, p) ==
    /\ 0 <= p /\ p < max_px
    /\ \E y \in 0..(img.height - 1) :
          BlackAt(img, x, y) /\ p = CenterOffset(img, max_px) + (img.height - 1 - y)

\* the documented payload of column x: bit p mod 8 of byte max_px/8 - 1 - p/8
LineDocumented(img, x, max_px) ==
    [k \in 1..(max_px \div 8) |->
        LET B(bit) == Bit(PinDocumented(img, x, max_px, 8 * ((max_px \div 8) - k) + bit),
                          2 ^ bit)
        IN  B(0) + B(1) + B(2) + B(3) + B(4) + B(5) + B(6) + B(7)]

\* C22: a successful job for a W x H image has sent exactly W raster lines,
\* line x carrying the max_px/8 bytes documented for column x (pin
\* offset + H - 1 - y for every black pixel (x, y), reversed byte order).
C22_ColumnRasterLines ==
    (variant \in {"printer", "printing"} /\ PrintReturned /\ lastCall.ret /\ ~job.err)
    => /\ Len(RasterLinesSent) = Img.width
       /\ \A x \in 1..Len(RasterLinesSent) :
             PayloadOf(RasterLinesSent[x]) = LineDocumented(Img, x - 1, Info.max_px)

\* the pins set in a raster line payload: bit b of byte k (from 1) is pin
\* 8 * (size - k) + b
PinsSet(payload) ==
    UNION { { 8 * (Len(payload) - k) + b :
                b \in {bb \in 0..7 : (payload[k] \div (2 ^ bb)) % 2 = 1} } :
            k \in 1..Len(payload) }

\* C23: every raster line printBitmap of ptouch_printing.cpp has sent is
\* max_px/8 bytes long and every pin set in it lies in [0, max_px) and in
\* [offset, offset + H - 1] with offset = max_px/2 - H/2, also when offset < 0.
C23_CenteringBounds ==
    (variant = "printing" /\ InJob)
    => \A i \in 1..Len(RasterLinesSent) :
          LET payload == PayloadOf(RasterLinesSent[i])
              offset == CenterOffset(Img, Info.max_px)
          IN  /\ Len(payload) = Info.max_px \div 8
              /\ \A p \in PinsSet(payload) :
                    /\ 0 <= p /\ p < Info.max_px
                    /\ offset <= p /\ p <= offset + Img.height - 1

\* C23 witness: an image taller than the head (negative offset) has been
\* printed, and its line has pins set
C23_Witness ==
    /\ variant = "printing" /\ PrintReturned /\ lastCall.ret /\ ~job.err
    /\ Img.height > Info.max_px
    /\ CenterOffset(Img, Info.max_px) < 0
    /\ Len(RasterLinesSent) = Img.width
    /\ \E i \in 1..Len(RasterLinesSent) : PinsSet(PayloadOf(RasterLinesSent[i])) # {}
    /\ \E y \in 0..(Img.height - 1) :
          BlackAt(Img, 0, y) /\ CenterOffset(Img, Info.max_px) + (Img.height - 1 - y) < 0

\* C24: a print job that has returned success without a transport error has
\* transmitted its frames back to back: no status request of
\* printer_status_task stands between two of them.
C24_NoForeignFrameInJob ==
    (PrintReturned /\ lastCall.ret /\ ~job.err)
    => ~(/\ 1 < status_task.at
         /\ status_task.at < Len(sent)
         /\ sent[status_task.at] = status_cmd)

\* the catalog entry is flagged PLite or UnsupportedRaster
Flagged(j) ==
    \/ HasFlag(supported_devices[j].flags, FLAG_PLITE)
    \/ HasFlag(supported_devices[j].flags, FLAG_UNSUP_RASTER)

\* C26: every catalog entry has max_px > 0 and dpi > 0, and a detectPrinter
\* call whose scan ends at a flagged entry returns false and never makes that
\* entry the profile of the printer.
C26_CatalogEntries ==
    /\ \A j \in 1..Len(supported_devices) :
          supported_devices[j].max_px > 0 /\ supported_devices[j].dpi > 0
    /\ (CallReturned("detectPrinter") /\ lastCall.found # NULL /\ Flagged(lastCall.found))
       => ~lastCall.ret /\ device_info # lastCall.found
    /\ device_info # NULL => ~Flagged(device_info)

\* C26 witness: the PT-P750W in PLite mode was plugged in and turned down
C26_Witness ==
    /\ CallReturned("detectPrinter")
    /\ lastCall.found # NULL
    /\ supported_devices[lastCall.found].pid = 8293
    /\ Flagged(lastCall.found)
    /\ ~lastCall.ret

\* the position of the entry with this pid in the catalog, 0 when there is none
CatalogIndex(pid) ==
    IF \E j \in 1..Len(supported_devices) : supported_devices[j].pid = pid
    THEN CHOOSE j \in 1..Len(supported_devices) : supported_devices[j].pid = pid
    ELSE 0

\* the listing holds the catalog entries without the PLite flag, each once,
\* in catalog order, and nothing else
ListingDocumented(list) ==
    /\ \A k \in 1..Len(list) :
          /\ CatalogIndex(list[k].pid) # 0
          /\ ~HasFlag(supported_devices[CatalogIndex(list[k].pid)].flags, FLAG_PLITE)
          /\ list[k].name = supported_devices[CatalogIndex(list[k].pid)].name
          /\ list[k].vid = supported_devices[CatalogIndex(list[k].pid)].vid
    /\ \A j \in 1..Len(supported_devices) :
          ~HasFlag(supported_devices[j].flags, FLAG_PLITE)
          => Cardinality({ k \in 1..Len(list) : list[k].pid = supported_devices[j].pid }) = 1
    /\ \A k, l \in 1..Len(list) :
          k < l => CatalogIndex(list[k].pid) < CatalogIndex(list[l].pid)

\* C27: the list of supported printers, as logged by listSupportedPrinters and
\* as served by GET /api/printers, holds exactly the catalog entries that are
\* not flagged PLite, each once and in catalog order.
C27_SupportedPrinterList ==
    (CallReturned("listSupportedPrinters") \/ CallReturned("api_printers_get_handler"))
    => ListingDocumented(lastCall.ret)

\* C27 witness: the listing was made and left the four PLite entries out
C27_Witness ==
    /\ CallReturned("listSupportedPrinters")
    /\ Len(lastCall.ret) = Len(supported_devices) - 4
    /\ \E j \in 1..Len(supported_devices) : HasFlag(supported_devices[j].flags, FLAG_PLITE)

\* the step is a call of this method of the mock (every call is recorded)
MockStep(op) == test'.last.op = op

\* the installed / registered state of the mock
Lifecycle(u) == <<u.host_driver_installed, u.client_registered>>

\* the call succeeds if its precondition holds and is otherwise turned down
\* with ESP_ERR_INVALID_ARG, the installed / registered state left as it was
SucceedsExactlyWhen(precondition) ==
    IF precondition
    THEN test'.last.ret = ESP_OK
    ELSE test'.last.ret = ESP_ERR_INVALID_ARG /\ Lifecycle(usb') = Lifecycle(usb)

\* C28: with no operation failure injected, install_host_driver succeeds
\* exactly when the driver is not installed, uninstall_host_driver when it is,
\* register_client when it is and no client is registered, deregister_client
\* when a client is registered; a call that does not succeed returns
\* ESP_ERR_INVALID_ARG and leaves the installed / registered state unchanged.
C28_LifecyclePreconditions ==
    [][ /\ (MockStep("install_host_driver") /\ ~usb.fail_next_operation)
           => SucceedsExactlyWhen(~usb.host_driver_installed)
        /\ MockStep("uninstall_host_driver")
           => SucceedsExactlyWhen(usb.host_driver_installed)
        /\ MockStep("register_client")
           => SucceedsExactlyWhen(usb.host_driver_installed /\ ~usb.client_registered)
        /\ MockStep("deregister_client")
           => SucceedsExactlyWhen(usb.client_registered) ]_vars

\* C28 witness: a second register_client was turned down and the client of
\* the first is still registered
C28_Witness ==
    /\ test.last.op = "register_client"
    /\ test.last.ret = ESP_ERR_INVALID_ARG
    /\ usb.host_driver_installed
    /\ usb.client_registered

\* the handle of the test points to a device that is open with its interface claimed
OpenAndClaimed ==
    /\ test.handle # NULL
    /\ test.handle \in DOMAIN usb.mock_devices
    /\ usb.mock_devices[test.handle].is_open
    /\ usb.mock_devices[test.handle].interface_claimed

\* C29: the sent-transfer log holds, in order, exactly the frames of the OUT
\* transfers answered ESP_OK since the last clear_transfer_history, one record
\* each; and an OUT transfer on an open, claimed device that was answered
\* ESP_OK reports the requested length and left the bytes it was given as the
\* last record.
C29_SentLog ==
    /\ Len(usb.sent_transfers) = Len(test.acked)
    /\ \A i \in 1..Len(test.acked) : usb.sent_transfers[i].data = test.acked[i]
    /\ (/\ test.last.op = "bulk_transfer" /\ test.last.endpoint < 128
        /\ test.last.ret = ESP_OK /\ OpenAndClaimed)
       => /\ test.last.actual_length = Len(test.last.data)
          /\ usb.sent_transfers # << >>
          /\ usb.sent_transfers[Len(usb.sent_transfers)].data = test.last.data
          /\ usb.sent_transfers[Len(usb.sent_transfers)].actual_length = Len(test.last.data)

\* C29 witness: two frames were sent one after the other on the open, claimed
\* device and both are in the log
C29_Witness ==
    /\ OpenAndClaimed
    /\ test.last.op = "bulk_transfer" /\ test.last.endpoint < 128
    /\ test.last.ret = ESP_OK
    /\ test.acked = << <<27, 64>>, status_cmd >>
    /\ Len(usb.sent_transfers) = 2

\* the step is a bulk transfer that passed the check of the handle
CountedTransfer ==
    /\ MockStep("bulk_transfer")
    /\ usb'.total_transfers = usb.total_transfers + 1

\* the logs of the mock
TransferLogs(u) == <<u.sent_transfers, u.received_transfers>>

\* C30: an injected error (a code other than ESP_OK) waits at the tail of the
\* queue; the bulk transfer on an open, claimed device that finds it at the
\* head returns it with actual_length 0, logs nothing, counts as one more
\* transfer and one more failure and takes it, and only it, off the queue; a
\* transfer that finds no error at the head is not failed; a call turned down
\* for its handle consumes nothing; failed transfers never exceed the total.
C30_InjectedErrors ==
    [][ LET q == usb.next_transfer_errors
            injected == q # << >> /\ Head(q) # ESP_OK
        IN  /\ (CountedTransfer /\ injected)
               => /\ test'.last.ret = Head(q)
                  /\ test'.last.actual_length = 0
                  /\ TransferLogs(usb') = TransferLogs(usb)
                  /\ usb'.failed_transfers = usb.failed_transfers + 1
                  /\ usb'.next_transfer_errors = Tail(q)
            /\ (CountedTransfer /\ ~injected)
               => /\ usb'.failed_transfers = usb.failed_transfers
                  /\ test'.last.endpoint < 128
                     => /\ test'.last.ret = ESP_OK
                        /\ usb'.sent_transfers =
                              Append(usb.sent_transfers,
                                     USBTransferRecord(test'.last.endpoint, test'.last.data,
                                                       Len(test'.last.data)))
            /\ (MockStep("bulk_transfer") /\ ~CountedTransfer)
               => usb' = usb
            /\ MockStep("set_next_transfer_error")
               => usb'.next_transfer_errors = Append(q, test'.last.ret)
            /\ usb'.failed_transfers <= usb'.total_transfers ]_vars

\* C30 witness: of two injected errors the first has failed an OUT transfer
\* and the second is still waiting
C30_Witness ==
    /\ OpenAndClaimed
    /\ test.last.op = "bulk_transfer" /\ test.last.endpoint < 128
    /\ test.last.ret = ESP_FAIL /\ test.last.actual_length = 0
    /\ usb.next_transfer_errors = << ESP_ERR_TIMEOUT >>
    /\ usb.total_transfers = 1 /\ usb.failed_transfers = 1
    /\ usb.sent_transfers = << >>

\* C31: a successful print job of ptouch_printer.cpp on a D460btMagic profile
\* has sent the chain frame 1B 69 4B 00 exactly once and the magic frame
\* 1B 69 64 0E 00 4D 00 exactly once, the magic frame right behind the chain
\* frame, whatever the chain argument.
C31_MagicFramesOnce ==
    (variant = "printer" /\ PrintReturned /\ lastCall.ret /\ ~job.err
        /\ HasFlag(Flags, FLAG_D460BT_MAGIC))
    => LET chains == {i \in 1..Len(sent) : sent[i] = <<27, 105, 75, 0>>}
           magics == {i \in 1..Len(sent) : sent[i] = <<27, 105, 100, 14, 0, 77, 0>>}
       IN  /\ Cardinality(chains) = 1
           /\ Cardinality(magics) = 1
           /\ \A i \in chains : i + 1 \in magics

\* C32: a print job of the component (either printBitmap) that reports success
\* had every one of its frames, the finalize frame included, accepted by the
\* transport: the finalize frame is the last frame handed over and the
\* transport answered no frame of the job with an error.
C32_SuccessMeansAllAccepted ==
    (variant \in {"printer", "printing"} /\ PrintReturned /\ lastCall.ret)
    => /\ ~job.err
       /\ sent # << >>
       /\ sent[Len(sent)] \in {<<26>>, <<12>>, ff_cmd}

\* C33: a PtouchPrinter of ptouch_printer.cpp that is marked initialized is
\* marked connected.
C33_InitializedImpliesConnected ==
    variant = "printer" => (is_initialized => is_connected)

\* the steps of printBitmap behind its status poll: each of them tests
\* device_info->flags or device_info->max_px without a null check
ReadsProfile == pc \notin {"idle", "returned", "status", "panic"}

\* C34: while a print job is at a step that reads the selected profile, a
\* profile is selected.
C34_ProfileSetWhenRead ==
    ReadsProfile => device_info # NULL

\* begin, detectPrinter and connect have succeeded since the last disconnect
\* and no device-gone event came after that connect
Established ==
    /\ usb_host_installed /\ client_hdl
    /\ device_hdl # NULL /\ device_info # NULL
    /\ is_connected

C36_EventuallyReconnected ==
    TransportWorks ~> printerConnected

\* the counters ptouch_debug_get_stats returns
SessionStats ==
    IF g_ptouch_debug_logger.allocated THEN g_ptouch_debug_logger.stats ELSE EmptyStats

\* C37: in every state total_packets = packets_in + packets_out and
\* errors <= total_packets; a call made while the logger is not initialized
\* (other than init) and a ptouch_debug_log_packet call with an empty packet
\* change no counter.
C37_SessionStatistics ==
    /\ [](/\ SessionStats.total_packets = SessionStats.packets_in + SessionStats.packets_out
          /\ SessionStats.errors <= SessionStats.total_packets)
    /\ [][(pc = "idle" /\ pc' = "returned")
            => /\ (~g_ptouch_debug_logger.allocated /\ lastCall'.op # "ptouch_debug_init")
                     => g_ptouch_debug_logger' = NoLogger
               /\ (lastCall'.op = "ptouch_debug_log_packet" /\ lastCall'.length = 0)
                     => g_ptouch_debug_logger' = g_ptouch_debug_logger]_vars

\* an empty packet was handed to a logger that has counted packets in both
\* directions, one of them failed
C37_Witness ==
    /\ CallReturned("ptouch_debug_log_packet")
    /\ lastCall.length = 0 /\ ~lastCall.recorded
    /\ g_ptouch_debug_logger.allocated
    /\ g_ptouch_debug_logger.stats.packets_in >= 1
    /\ g_ptouch_debug_logger.stats.packets_out >= 1
    /\ g_ptouch_debug_logger.stats.errors >= 1
    /\ g_ptouch_debug_logger.stats.errors < g_ptouch_debug_logger.stats.total_packets

\* the frames connect and printBitmap of ptouch_printer.cpp emit, each with
\* the command type of the operation that builds it
EmittedFrames ==
    { <<f, "PTOUCH_CMD_INIT">> : f \in { <<27, 64>>, InvalidateFrame } }
    \cup { <<status_cmd, "PTOUCH_CMD_STATUS_REQUEST">>,
           <<chain_cmd("printer"), "PTOUCH_CMD_D460BT_CHAIN">>,
           <<magic_cmd("printer"), "PTOUCH_CMD_D460BT_MAGIC">>,
           <<enablePackBits_cmd("printer"), "PTOUCH_CMD_PACKBITS_ENABLE">>,
           <<sendInfoCommand_cmd("printer", FLAG_D460BT_MAGIC, 12, 60), "PTOUCH_CMD_INFO">>,
           <<rasterStart_cmd("printer", FLAG_NONE), "PTOUCH_CMD_RASTER_START">>,
           <<rasterStart_cmd("printer", FLAG_P700_INIT), "PTOUCH_CMD_RASTER_START">>,
           <<sendPreCutCommand_cmd(1), "PTOUCH_CMD_PRECUT">> }
    \cup { <<f, "PTOUCH_CMD_RASTER_LINE">> : f \in RasterLineFrames }
    \cup { <<finalizePrint_cmd("printer", FLAG_NONE, chain), "PTOUCH_CMD_FINALIZE">> :
              chain \in BOOLEAN }

\* C38: a frame that connect or a print job emits is classified as the command
\* type of the operation that produced it.
C38_EncoderClassifierAgree ==
    Classified
    => \A e \in EmittedFrames : lastCall.data = e[1] => lastCall.cmd_type = e[2]

\* C39: a printBitmap call that has started a job returns.
C39_PrintJobTerminates ==
    (pc \notin {"idle", "returned"}) ~> PrintReturned

\* a job has returned failure from its raster loop: the transfer of a line
\* behind the first was polled until its attempts ran out and then failed
C39_Witness ==
    /\ PrintReturned /\ ~lastCall.ret
    /\ is_connected /\ job.err
    /\ job.n >= 1 /\ job.attempts = 0

\* a job has returned success with every frame taken by the transport
AcceptedJob == PrintReturned /\ lastCall.ret /\ ~job.err

\* C40: a job that printBitmap of ptouch_printer.cpp has completed over an
\* accepting transport has the result and the frames that printBitmap of
\* ptouch_printing.cpp has for the same profile, status frame, bitmap and
\* chain flag.
C40_PrintBitmapBuildsAgree ==
    (variant = "printer" /\ AcceptedJob)
    => /\ printBitmap_printing.ret = lastCall.ret
       /\ printBitmap_printing.frames = sent

====
